---- MODULE Spec2Model ----
(***************************************************************************)
(* A model of the single-line Markdown lexer of medup (src/src/lexer.rs):  *)
(* Lexer::split drives the block-mark classifier, the inline automaton     *)
(* (Lexer::split_inline), the link-detail extractor and the tidy pass.     *)
(* Line::parse of src/src/lib.rs, the line parser of the crate root, is    *)
(* modelled next to it with variables and a specification of its own.      *)
(* A line is a sequence of one-character strings; character positions are  *)
(* 0-based as in the source, sequences are 1-based as in TLA+.             *)
(***************************************************************************)
EXTENDS Integers, Sequences, FiniteSets, TLC

VARIABLES
    line,       \* Lexer.line_text
    pc,         \* position in Lexer::split
    state,      \* Lexer.state
    ix,         \* position of the classifier's loop over line_text
    buff,       \* split's buff
    content,    \* split_inline's argument
    istate,     \* split_inline's state
    last,       \* split_inline's last
    ibuff,      \* split_inline's buff (and tidy's)
    iix,        \* position of split_inline's loop over content
    stack,      \* tidy's stack: positions of pending tokens in ibuff, bottom first
    tpos,       \* tidy's scan position in ibuff
    panicked,   \* TRUE once a panic!/unreachable!/out-of-range split was reached
    text,       \* lib.rs, Line::parse: line
    line_num,   \* Line::parse: ln
    ppc,        \* position in Line::parse
    current,    \* Line::parse: position of the loop over line.chars()
    sm_state,   \* StateMachine.state
    pointer,    \* StateMachine.pointer
    times,      \* StateMachine.times
    tokens,     \* StateMachine.tokens, then Line.tokens
    line_kind   \* Line.kind

\* The variables of Line::parse (src/src/lib.rs)
parseVars == <<text, line_num, ppc, current, sm_state, pointer, times, tokens, line_kind>>

vars == <<line, pc, state, ix, buff, content, istate, last, ibuff, iix, stack, tpos, panicked,
          parseVars>>

----------------------------------------------------------------------------
(* Bounds of the model *)

MaxLen == 5

----------------------------------------------------------------------------
(* Strings *)

Range(s) == {s[i] : i \in 1..Len(s)}

Count(s, c) == Cardinality({i \in 1..Len(s) : s[i] = c})

\* char::is_whitespace, on the characters of the model's alphabet
IsWhitespace(c) == c \in {" ", "\t", "\n"}

\* utf8_slice::slice(s, begin, end): characters begin..end-1, "" when out of range
Slice(s, begin, end) ==
    IF end < begin \/ begin >= Len(s) THEN <<>>
    ELSE SubSeq(s, begin + 1, IF end < Len(s) THEN end ELSE Len(s))

\* utf8_slice::from(s, begin)
SliceFrom(s, begin) ==
    IF begin >= Len(s) THEN <<>> ELSE SubSeq(s, begin + 1, Len(s))

RECURSIVE TrimEnd(_)
TrimEnd(s) ==
    IF s # <<>> /\ IsWhitespace(s[Len(s)]) THEN TrimEnd(SubSeq(s, 1, Len(s) - 1)) ELSE s

RECURSIVE TrimStart(_)
TrimStart(s) ==
    IF s # <<>> /\ IsWhitespace(s[1]) THEN TrimStart(Tail(s)) ELSE s

Trim(s) == TrimStart(TrimEnd(s))

EndsWith(s, suffix) ==
    Len(s) >= Len(suffix) /\ SubSeq(s, Len(s) - Len(suffix) + 1, Len(s)) = suffix

\* str::trim_end_matches(pattern): strips every trailing repetition of pattern
RECURSIVE TrimEndMatches(_, _)
TrimEndMatches(s, pattern) ==
    IF EndsWith(s, pattern) THEN TrimEndMatches(SubSeq(s, 1, Len(s) - Len(pattern)), pattern)
    ELSE s

\* str::trim_end_matches / trim_start_matches with a set of characters
RECURSIVE TrimEndChars(_, _)
TrimEndChars(s, cs) ==
    IF s # <<>> /\ s[Len(s)] \in cs THEN TrimEndChars(SubSeq(s, 1, Len(s) - 1), cs) ELSE s

RECURSIVE TrimStartChars(_, _)
TrimStartChars(s, cs) ==
    IF s # <<>> /\ s[1] \in cs THEN TrimStartChars(Tail(s), cs) ELSE s

BR == <<"<", "b", "r", ">">>

\* The backtick character: a TLA+ string cannot hold one, so the model writes it "~"
BT == "~"

ESCAPE_CHARS ==
    {":", "*", "_", BT, "#", "+", "-", ".", "!", "[", "]", "(", ")", "<", ">", "\\"}

----------------------------------------------------------------------------
(* Tokens *)

TokenKind ==
    {"TitleMark", "UnorderedMark", "OrderedMark", "DividingMark", "QuoteMark",
     "BoldMark", "ItalicMark", "ItalicBoldMark", "CodeBlockMark", "CodeMark",
     "BlankLine", "LineBreak", "Image", "Link", "QuickLink", "RefLink",
     "RefLinkDef", "Text", "Star", "UnderLine", "BackTick", "WhiteSpace"}

BlockMarkKinds ==
    {"TitleMark", "UnorderedMark", "OrderedMark", "DividingMark", "QuoteMark",
     "CodeBlockMark"}

LinkKinds == {"Image", "Link", "QuickLink", "RefLink", "RefLinkDef"}

\* Token.details: Option<HashMap<String, String>>
NoDetails == [some |-> FALSE, map |-> <<>>]

\* Token::new
Token(value, kind) == [value |-> value, kind |-> kind, details |-> NoDetails]

\* Token::insert: details.get_or_insert(HashMap::new()).insert(k, v)
TokenInsert(t, k, v) ==
    [t EXCEPT !.details = [some |-> TRUE, map |-> (k :> v) @@ t.details.map]]

\* GenericLinkTokenAsMut::insert_name / insert_location / insert_reflink_tag
InsertNonEmpty(t, k, v) == IF v # <<>> THEN TokenInsert(t, k, v) ELSE t

QuoteChars == {"\"", "'"}

\* GenericLinkTokenAsMut::insert_title
InsertTitle(t, v) ==
    IF v # <<>>
    THEN TokenInsert(t, "title", TrimStartChars(TrimEndChars(v, QuoteChars), QuoteChars))
    ELSE t

\* Token::as_generic_link / as_generic_link_mut: panics unless the kind is a link kind
AsGenericLinkPanics(t) == t.kind \notin LinkKinds

----------------------------------------------------------------------------
(* Block mark classifier *)

\* is_dividing without the counts.len() == 1 test
IsDividingAnyOthers(s) ==
    LET nonws == SelectSeq(s, LAMBDA c : ~IsWhitespace(c))
        keys  == Range(nonws)
        n     == IF "*" \in keys THEN Count(nonws, "*")
                 ELSE IF "-" \in keys THEN Count(nonws, "-")
                 ELSE IF "_" \in keys THEN Count(nonws, "_")
                 ELSE 0
    IN  n >= 3

\* Lexer::is_dividing
IsDividing(s) ==
    LET nonws == SelectSeq(s, LAMBDA c : ~IsWhitespace(c))
        keys  == Range(nonws)
        n     == IF "*" \in keys THEN Count(nonws, "*")
                 ELSE IF "-" \in keys THEN Count(nonws, "-")
                 ELSE IF "_" \in keys THEN Count(nonws, "_")
                 ELSE 0
    IN  Cardinality(keys) = 1 /\ n >= 3

Digits19 == {"1", "2", "3", "4", "5", "6", "7", "8", "9"}
Digits09 == Digits19 \cup {"0"}

NoMark == [some |-> FALSE, token |-> Token(<<>>, "Text")]
SomeMark(value, kind) == [some |-> TRUE, token |-> Token(value, kind)]

\* extract_mark: the title arm
IsTitleWord(w) == Len(w) \in 1..4 /\ \A i \in 1..Len(w) : w[i] = "#"

\* extract_mark: the three ordered-list arms
IsOrderedWord(w) ==
    \/ Len(w) = 2 /\ w[1] \in Digits19 /\ w[2] = "."
    \/ Len(w) = 3 /\ w[1] \in Digits19 /\ w[2] \in Digits09 /\ w[3] = "."
    \/ Len(w) = 4 /\ w[1] \in Digits19 /\ w[2] \in Digits09 /\ w[3] \in Digits09
                  /\ w[4] = "."

\* extract_mark: the arms after the title and ordered-list arms
OtherMarks(ln, w) ==
    LET dividing == SomeMark(TrimEndChars(ln, {"\n"}), "DividingMark")
    IN  IF w = <<">">>
            THEN SomeMark(w, "QuoteMark")
        ELSE IF Len(w) >= 3 /\ w[1] = BT /\ w[2] = BT /\ w[3] = BT
            THEN SomeMark(<<BT, BT, BT>>, "CodeBlockMark")
        ELSE IF w = <<"+">>
            THEN SomeMark(w, "UnorderedMark")
        ELSE IF w = <<"*">> \/ w = <<"-">>
            THEN IF IsDividing(ln) THEN dividing ELSE SomeMark(w, "UnorderedMark")
        ELSE IF Len(w) >= 1 /\ w[1] \in {"*", "-", "_"}
            THEN IF IsDividing(ln) THEN dividing ELSE NoMark
        ELSE NoMark

\* extract_mark with a title arm that also takes five #
ExtractMarkFiveHashes(ln, first_word) ==
    IF Len(first_word) \in 1..5 /\ \A i \in 1..Len(first_word) : first_word[i] = "#"
        THEN SomeMark(first_word, "TitleMark")
    ELSE IF IsOrderedWord(first_word) THEN SomeMark(first_word, "OrderedMark")
    ELSE OtherMarks(ln, first_word)

\* extract_mark without the arm for three digits
ExtractMarkTwoDigits(ln, first_word) ==
    IF IsTitleWord(first_word) THEN SomeMark(first_word, "TitleMark")
    ELSE IF IsOrderedWord(first_word) /\ Len(first_word) < 4
        THEN SomeMark(first_word, "OrderedMark")
    ELSE OtherMarks(ln, first_word)

\* Lexer::extract_mark, the arms in the order of the source
ExtractMark(ln, first_word) ==
    IF IsTitleWord(first_word) THEN SomeMark(first_word, "TitleMark")
    ELSE IF IsOrderedWord(first_word) THEN SomeMark(first_word, "OrderedMark")
    ELSE OtherMarks(ln, first_word)

StBegin == [tag |-> "Begin", begin |-> 0]
StMark(b) == [tag |-> "Mark", begin |-> b]
StInline(b) == [tag |-> "Inline", begin |-> b]
StFinished == [tag |-> "Finished", begin |-> 0]

\* The classifier's registers: Lexer.state, the loop position and split's buff
Cls(st, i, b) == [state |-> st, ix |-> i, buff |-> b]

\* The State::Begin arm without the test that the leading whitespace is not empty
BeginArmEmptyWhiteSpace(ln, c) ==
    LET curr == ln[c.ix + 1]
        s    == Slice(ln, 0, c.ix)
    IN  IF ~IsWhitespace(curr)
        THEN Cls(StMark(c.ix), c.ix + 1, Append(c.buff, Token(s, "WhiteSpace")))
        ELSE IF curr = "\n"
        THEN Cls(c.state, c.ix + 1, Append(c.buff, Token(s, "BlankLine")))
        ELSE Cls(c.state, c.ix + 1, c.buff)

\* split, State::Begin arm, on the character at position c.ix
BeginArm(ln, c) ==
    LET curr == ln[c.ix + 1]
        s    == Slice(ln, 0, c.ix)
    IN  IF ~IsWhitespace(curr)
        THEN Cls(StMark(c.ix), c.ix + 1,
                 IF s # <<>> THEN Append(c.buff, Token(s, "WhiteSpace")) ELSE c.buff)
        ELSE IF curr = "\n"
        THEN Cls(c.state, c.ix + 1, Append(c.buff, Token(s, "BlankLine")))
        ELSE Cls(c.state, c.ix + 1, c.buff)

\* AfterMark without the arm for CodeBlockMark
AfterMarkNoFence(kind, begin, i) ==
    IF kind = "DividingMark" THEN StFinished ELSE StInline(i + 1)

\* AfterMark that starts the inline phase at the whitespace character itself
AfterMarkKeepsWhitespace(kind, begin, i) ==
    IF kind = "CodeBlockMark" THEN StInline(begin + 3)
    ELSE IF kind = "DividingMark" THEN StFinished
    ELSE StInline(i)

\* split: the state the classifier goes to after a mark of the given kind
AfterMark(kind, begin, i) ==
    IF kind = "CodeBlockMark" THEN StInline(begin + 3)
    ELSE IF kind = "DividingMark" THEN StFinished
    ELSE StInline(i + 1)

\* The State::Mark arm that goes on after the first word when it is not a mark
MarkArmSkipWord(ln, c) ==
    LET curr  == ln[c.ix + 1]
        begin == c.state.begin
        m     == ExtractMark(ln, Slice(ln, begin, c.ix))
    IN  IF ~IsWhitespace(curr) THEN Cls(c.state, c.ix + 1, c.buff)
        ELSE IF m.some
        THEN Cls(AfterMark(m.token.kind, begin, c.ix), c.ix + 1, Append(c.buff, m.token))
        ELSE Cls(StInline(c.ix + 1), c.ix + 1, c.buff)

\* split, State::Mark arm, on the character at position c.ix
MarkArm(ln, c) ==
    LET curr  == ln[c.ix + 1]
        begin == c.state.begin
        m     == ExtractMark(ln, Slice(ln, begin, c.ix))
    IN  IF ~IsWhitespace(curr) THEN Cls(c.state, c.ix + 1, c.buff)
        ELSE IF m.some
        THEN Cls(AfterMark(m.token.kind, begin, c.ix), c.ix + 1, Append(c.buff, m.token))
        ELSE Cls(StInline(begin), c.ix + 1, c.buff)

\* split: the loop over line_text has ended (iterator exhausted, or break)
LoopEnded(ln, c) == c.ix >= Len(ln) \/ c.state.tag \in {"Inline", "Finished"}

RECURSIVE Classify(_, _)
Classify(ln, c) ==
    IF LoopEnded(ln, c) THEN c
    ELSE IF c.state.tag = "Begin" THEN Classify(ln, BeginArm(ln, c))
    ELSE Classify(ln, MarkArm(ln, c))

----------------------------------------------------------------------------
(* Link detail extractor *)

SchemeStart == {"a", "b", "r"}
SchemeChars == SchemeStart \cup Digits09 \cup {"+", "-", "."}

\* Lexer::is_url (Url::try_from): an absolute URL, that is a scheme, ":" and the
\* rest; the schemes of the model's alphabet are not special, so any rest parses
IsUrl(s) ==
    \E k \in 2..Len(s) :
        /\ s[k] = ":"
        /\ s[1] \in SchemeStart
        /\ \A i \in 2..(k - 1) : s[i] \in SchemeChars

\* dot-atom text: non-empty atoms separated by ".", the characters of an
\* RFC 5322 atom being those among the model's alphabet
IsDotAtom(s) ==
    /\ s # <<>>
    /\ \A i \in 1..Len(s) :
          s[i] \in SchemeStart \cup Digits09 \cup {"!", "#", "'", "*", "+", "-", "_", BT, "."}
    /\ s[1] # "." /\ s[Len(s)] # "."
    /\ \A i \in 1..(Len(s) - 1) : ~(s[i] = "." /\ s[i + 1] = ".")

\* Lexer::is_email (EmailAddress::is_valid): local part "@" domain, split at the last "@"
IsEmail(s) ==
    \E k \in 1..Len(s) :
        /\ s[k] = "@"
        /\ \A i \in (k + 1)..Len(s) : s[i] # "@"
        /\ IsDotAtom(SubSeq(s, 1, k - 1))
        /\ IsDotAtom(SubSeq(s, k + 1, Len(s)))

\* The body of a quoted string from position i on: ([^q\\]|\\.)* up to the end
RECURSIVE QuotedBody(_, _, _)
QuotedBody(s, i, q) ==
    IF i > Len(s) THEN TRUE
    ELSE IF s[i] = "\\" THEN i + 1 <= Len(s) /\ s[i + 1] # "\n" /\ QuotedBody(s, i + 2, q)
    ELSE s[i] # q /\ QuotedBody(s, i + 1, q)

\* D_QUOTED_STRING_RE / S_QUOTED_STRING_RE for the quote character q
QuotedBy(s, q) ==
    /\ Len(s) >= 2
    /\ s[1] = q
    /\ s[Len(s)] = q
    /\ QuotedBody(SubSeq(s, 2, Len(s) - 1), 1, q)

\* Lexer::is_quoted_string
IsQuotedString(s) == QuotedBy(s, "\"") \/ QuotedBy(s, "'")

\* str::splitn(2, [' ', '\t'])
SplitN2(s) ==
    LET seps == {i \in 1..Len(s) : s[i] \in {" ", "\t"}}
    IN  IF seps = {} THEN <<s>>
        ELSE LET k == CHOOSE i \in seps : \A j \in seps : i <= j
             IN  <<SubSeq(s, 1, k - 1), SubSeq(s, k + 1, Len(s))>>

\* split_generic_link_details: the kind once the fields of s2 are split
DetailsKind(s2raw, kind0) ==
    LET fields == SplitN2(Trim(s2raw))
    IN  IF Len(fields) < 2 \/ IsQuotedString(fields[2]) THEN kind0 ELSE "Text"

\* The details that call the accessor before they look at the kind
LinkDetailsPanicsAccessorFirst(s2raw, kind0) ==
    AsGenericLinkPanics(Token(<<>>, DetailsKind(s2raw, kind0)))

\* split_generic_link_details panics: as_generic_link_mut on a token that is
\* no generic link, or the unreachable!() arm of the match on the kind
LinkDetailsPanics(s2raw, kind0) ==
    LET k == DetailsKind(s2raw, kind0)
    IN  IF k \in {"Image", "Link", "RefLink", "RefLinkDef", "QuickLink"}
        THEN AsGenericLinkPanics(Token(<<>>, k))
        ELSE k # "Text"

\* The link details that take any second field for a title
LinkDetailsAnyTitle(s, s1, s2raw, kind0) ==
    LET s2     == Trim(s2raw)
        fields == SplitN2(s2)
        r      == IF Len(fields) < 2 THEN [kind |-> kind0, location |-> s2, title |-> <<>>]
                  ELSE [kind |-> kind0, location |-> fields[1], title |-> fields[2]]
        t      == Token(s, r.kind)
    IN  IF r.kind \in {"Image", "Link"}
        THEN InsertTitle(InsertNonEmpty(InsertNonEmpty(t, "name", s1),
                                        "location", r.location), r.title)
        ELSE IF r.kind = "RefLink"
        THEN InsertNonEmpty(InsertNonEmpty(t, "name", s1), "ptr", s2)
        ELSE IF r.kind = "RefLinkDef"
        THEN InsertTitle(InsertNonEmpty(InsertNonEmpty(t, "ptr", s1),
                                        "location", r.location), r.title)
        ELSE IF r.kind = "QuickLink"
        THEN InsertNonEmpty(InsertNonEmpty(t, "name", s1), "location", r.location)
        ELSE t

\* The link details that keep the name on a construct degraded to Text
LinkDetailsTextKeepsName(s, s1, s2raw, kind0) ==
    LET s2     == Trim(s2raw)
        fields == SplitN2(s2)
        r      == IF Len(fields) < 2 THEN [kind |-> kind0, location |-> s2, title |-> <<>>]
                  ELSE IF IsQuotedString(fields[2])
                  THEN [kind |-> kind0, location |-> fields[1], title |-> fields[2]]
                  ELSE [kind |-> "Text", location |-> <<>>, title |-> <<>>]
        t      == Token(s, r.kind)
    IN  IF r.kind \in {"Image", "Link"}
        THEN InsertTitle(InsertNonEmpty(InsertNonEmpty(t, "name", s1),
                                        "location", r.location), r.title)
        ELSE IF r.kind = "RefLink"
        THEN InsertNonEmpty(InsertNonEmpty(t, "name", s1), "ptr", s2)
        ELSE IF r.kind = "RefLinkDef"
        THEN InsertTitle(InsertNonEmpty(InsertNonEmpty(t, "ptr", s1),
                                        "location", r.location), r.title)
        ELSE IF r.kind = "QuickLink"
        THEN InsertNonEmpty(InsertNonEmpty(t, "name", s1), "location", r.location)
        ELSE InsertNonEmpty(t, "name", s1)

\* Lexer::split_generic_link_details
LinkDetails(s, s1, s2raw, kind0) ==
    LET s2     == Trim(s2raw)
        fields == SplitN2(s2)
        r      == IF Len(fields) < 2 THEN [kind |-> kind0, location |-> s2, title |-> <<>>]
                  ELSE IF IsQuotedString(fields[2])
                  THEN [kind |-> kind0, location |-> fields[1], title |-> fields[2]]
                  ELSE [kind |-> "Text", location |-> <<>>, title |-> <<>>]
        t      == Token(s, r.kind)
    IN  IF r.kind \in {"Image", "Link"}
        THEN InsertTitle(InsertNonEmpty(InsertNonEmpty(t, "name", s1),
                                        "location", r.location), r.title)
        ELSE IF r.kind = "RefLink"
        THEN InsertNonEmpty(InsertNonEmpty(t, "name", s1), "ptr", s2)
        ELSE IF r.kind = "RefLinkDef"
        THEN InsertTitle(InsertNonEmpty(InsertNonEmpty(t, "ptr", s1),
                                        "location", r.location), r.title)
        ELSE IF r.kind = "QuickLink"
        THEN InsertNonEmpty(InsertNonEmpty(t, "name", s1), "location", r.location)
        ELSE t

----------------------------------------------------------------------------
(* Inline automaton *)

\* InlineState; has1 says whether the Option<usize> of NameEnd / Location is Some
IState(tag, has1, b1, b2, b3, b4) ==
    [tag |-> tag, has1 |-> has1, b1 |-> b1, b2 |-> b2, b3 |-> b3, b4 |-> b4]

INormal == IState("Normal", FALSE, 0, 0, 0, 0)
ISkip == IState("Skip", FALSE, 0, 0, 0, 0)
IFinished == IState("Finished", FALSE, 0, 0, 0, 0)
IContinuous(b) == IState("Continuous", FALSE, b, 0, 0, 0)
IImgBegin(b) == IState("ImgBegin", FALSE, b, 0, 0, 0)
IImgNameBegin(b1, b2) == IState("ImgNameBegin", FALSE, b1, b2, 0, 0)
ILinkNameBegin(b) == IState("LinkNameBegin", FALSE, b, 0, 0, 0)
INameEnd(has1, b1, b2, b3) == IState("NameEnd", has1, b1, b2, b3, 0)
IRefLink(b1, b2, b3) == IState("RefLink", FALSE, b1, b2, b3, 0)
IRefLinkDef(b1, b2, b3) == IState("RefLinkDef", FALSE, b1, b2, b3, 0)
ILocation(has1, b1, b2, b3, b4) == IState("Location", has1, b1, b2, b3, b4)
IQuickLink(b) == IState("QuickLink", FALSE, b, 0, 0, 0)

\* split_inline's registers: state, last, buff, the loop position, and whether the
\* loop was left by break; panic is TRUE when an unreachable!() arm was reached
Reg(st, l, b, i, brk, panic) ==
    [state |-> st, last |-> l, buff |-> b, ix |-> i, brk |-> brk, panic |-> panic]

\* buff.push(Token::new(s, Text)) when s is not empty
PushText(b, s) == IF s # <<>> THEN Append(b, Token(s, "Text")) ELSE b

\* content_iter.peek(), with the default the caller gives for the end of the input
Peek(cont, i, default) == IF i + 2 <= Len(cont) THEN cont[i + 2] ELSE default

DelimKind(ch) ==
    IF ch = "*" THEN "Star" ELSE IF ch = "_" THEN "UnderLine" ELSE "BackTick"

DelimChars == {"*", "_", BT}

\* (_, '\n')
NewlineArm(cont, a) ==
    LET s == TrimEndMatches(TrimEnd(Slice(cont, a.last, a.ix)), BR)
    IN  Reg(a.state, a.last, PushText(a.buff, s), a.ix + 1, TRUE, a.panic)

\* (_, '\\')
BackslashArm(cont, a) ==
    IF Peek(cont, a.ix, "x") \in ESCAPE_CHARS
    THEN Reg(ISkip, a.ix + 1, PushText(a.buff, Slice(cont, a.last, a.ix)),
             a.ix + 1, FALSE, a.panic)
    ELSE Reg(a.state, a.last, a.buff, a.ix + 1, FALSE, a.panic)

\* (InlineState::Skip, _)
SkipArm(cont, a) == Reg(INormal, a.last, a.buff, a.ix + 1, FALSE, a.panic)

\* The Normal arm that enters Continuous without looking at the next character
NormalArmNoLookahead(cont, a) ==
    LET ch == cont[a.ix + 1]
        b1 == PushText(a.buff, Slice(cont, a.last, a.ix))
    IN  IF ch \in DelimChars
        THEN Reg(IContinuous(a.ix), a.ix, b1, a.ix + 1, FALSE, a.panic)
        ELSE IF ch = "!" THEN Reg(IImgBegin(a.ix), a.last, a.buff, a.ix + 1, FALSE, a.panic)
        ELSE IF ch = "[" THEN Reg(ILinkNameBegin(a.ix), a.last, a.buff, a.ix + 1, FALSE, a.panic)
        ELSE IF ch = "<" THEN Reg(IQuickLink(a.ix), a.last, a.buff, a.ix + 1, FALSE, a.panic)
        ELSE Reg(a.state, a.last, a.buff, a.ix + 1, FALSE, a.panic)

\* (InlineState::Normal, _)
NormalArm(cont, a) ==
    LET ch == cont[a.ix + 1]
        b1 == PushText(a.buff, Slice(cont, a.last, a.ix))
    IN  IF ch \in DelimChars
        THEN IF Peek(cont, a.ix, " ") = ch
             THEN Reg(IContinuous(a.ix), a.ix, b1, a.ix + 1, FALSE, a.panic)
             ELSE Reg(a.state, a.ix + 1,
                      Append(b1, Token(Slice(cont, a.ix, a.ix + 1), DelimKind(ch))),
                      a.ix + 1, FALSE, a.panic)
        ELSE IF ch = "!" THEN Reg(IImgBegin(a.ix), a.last, a.buff, a.ix + 1, FALSE, a.panic)
        ELSE IF ch = "[" THEN Reg(ILinkNameBegin(a.ix), a.last, a.buff, a.ix + 1, FALSE, a.panic)
        ELSE IF ch = "<" THEN Reg(IQuickLink(a.ix), a.last, a.buff, a.ix + 1, FALSE, a.panic)
        ELSE Reg(a.state, a.last, a.buff, a.ix + 1, FALSE, a.panic)

\* (InlineState::ImgBegin(begin), _)
ImgBeginArm(cont, a) ==
    LET ch == cont[a.ix + 1]
        st == IF ch = "[" THEN IImgNameBegin(a.state.b1, a.ix)
              ELSE IF ch = "!" THEN IImgBegin(a.ix)
              ELSE INormal
    IN  Reg(st, a.last, a.buff, a.ix + 1, FALSE, a.panic)

\* The ImgNameBegin arm that restarts the name at a nested bracket, as the
\* LinkNameBegin arm does
ImgNameBeginArmRestarts(cont, a) ==
    LET ch == cont[a.ix + 1]
        st == IF ch = "]" THEN INameEnd(TRUE, a.state.b1, a.state.b2, a.ix)
              ELSE IF ch = "[" THEN IImgNameBegin(a.state.b1, a.ix)
              ELSE a.state
    IN  Reg(st, a.last, a.buff, a.ix + 1, FALSE, a.panic)

\* (InlineState::ImgNameBegin(b1, b2), _)
ImgNameBeginArm(cont, a) ==
    LET ch == cont[a.ix + 1]
        st == IF ch = "]" THEN INameEnd(TRUE, a.state.b1, a.state.b2, a.ix) ELSE a.state
    IN  Reg(st, a.last, a.buff, a.ix + 1, FALSE, a.panic)

\* (InlineState::LinkNameBegin(begin), _)
LinkNameBeginArm(cont, a) ==
    LET ch == cont[a.ix + 1]
        st == IF ch = "]" THEN INameEnd(FALSE, 0, a.state.b1, a.ix)
              ELSE IF ch = "[" THEN ILinkNameBegin(a.ix)
              ELSE a.state
    IN  Reg(st, a.last, a.buff, a.ix + 1, FALSE, a.panic)

\* The NameEnd arm that hands the character that ends the construct to the
\* Normal arm instead of dropping it
NameEndArmReexamines(cont, a) ==
    LET ch == cont[a.ix + 1]
        q  == a.state
    IN  IF ch = "(" THEN Reg(ILocation(q.has1, q.b1, q.b2, q.b3, a.ix),
                             a.last, a.buff, a.ix + 1, FALSE, a.panic)
        ELSE IF ch = "]" THEN Reg(INameEnd(q.has1, q.b1, q.b2, a.ix),
                                  a.last, a.buff, a.ix + 1, FALSE, a.panic)
        ELSE IF ch = "[" THEN Reg(IRefLink(q.b2, q.b3, a.ix),
                                  a.last, a.buff, a.ix + 1, FALSE, a.panic)
        ELSE IF ch = ":" THEN Reg(IRefLinkDef(q.b2, q.b3, a.ix),
                                  a.last, a.buff, a.ix + 1, FALSE, a.panic)
        ELSE NormalArm(cont, [a EXCEPT !.state = INormal])

\* (InlineState::NameEnd(b1, b2, b3), _)
NameEndArm(cont, a) ==
    LET ch == cont[a.ix + 1]
        q  == a.state
        st == IF ch = "(" THEN ILocation(q.has1, q.b1, q.b2, q.b3, a.ix)
              ELSE IF ch = "]" THEN INameEnd(q.has1, q.b1, q.b2, a.ix)
              ELSE IF ch = "[" THEN IRefLink(q.b2, q.b3, a.ix)
              ELSE IF ch = ":" THEN IRefLinkDef(q.b2, q.b3, a.ix)
              ELSE INormal
    IN  Reg(st, a.last, a.buff, a.ix + 1, FALSE, a.panic)

\* (InlineState::RefLink(b1, b2, b3), _)
RefLinkArm(cont, a) ==
    LET ch == cont[a.ix + 1]
        q  == a.state
        t  == LinkDetails(Slice(cont, q.b1, a.ix + 1), Slice(cont, q.b1 + 1, q.b2),
                          Slice(cont, q.b3 + 1, a.ix), "RefLink")
    IN  IF ch = "]"
        THEN Reg(INormal, a.ix + 1,
                 Append(PushText(a.buff, Slice(cont, a.last, q.b1)), t),
                 a.ix + 1, FALSE,
                 a.panic \/ LinkDetailsPanics(Slice(cont, q.b3 + 1, a.ix), "RefLink"))
        ELSE Reg(a.state, a.last, a.buff, a.ix + 1, FALSE, a.panic)

\* (InlineState::RefLinkDef(b1, b2, _b3), _)
RefLinkDefArm(cont, a) ==
    LET q == a.state
        t == LinkDetails(TrimEndChars(SliceFrom(cont, a.last), {"\n"}),
                         Slice(cont, q.b1 + 1, q.b2),
                         TrimEndChars(SliceFrom(cont, a.ix), {"\n"}), "RefLinkDef")
    IN  Reg(IFinished, a.last, Append(a.buff, t), a.ix + 1, FALSE,
    a.panic \/ LinkDetailsPanics(TrimEndChars(SliceFrom(cont, a.ix), {"\n"}), "RefLinkDef"))

\* The Location arm that takes every construct for a link
LocationArmAlwaysLink(cont, a) ==
    LET ch    == cont[a.ix + 1]
        q     == a.state
        begin == IF q.has1 THEN q.b1 ELSE q.b2
        t     == LinkDetails(Slice(cont, begin, a.ix + 1), Slice(cont, q.b2 + 1, q.b3),
                             Slice(cont, q.b4 + 1, a.ix), "Link")
    IN  IF ch = ")"
        THEN Reg(INormal, a.ix + 1,
                 Append(PushText(a.buff, Slice(cont, a.last, begin)), t),
                 a.ix + 1, FALSE,
                 a.panic \/ LinkDetailsPanics(Slice(cont, q.b4 + 1, a.ix), "Link"))
        ELSE Reg(a.state, a.last, a.buff, a.ix + 1, FALSE, a.panic)

\* (InlineState::Location(b1, b2, b3, b4), _)
LocationArm(cont, a) ==
    LET ch    == cont[a.ix + 1]
        q     == a.state
        begin == IF q.has1 THEN q.b1 ELSE q.b2
        t     == LinkDetails(Slice(cont, begin, a.ix + 1), Slice(cont, q.b2 + 1, q.b3),
                             Slice(cont, q.b4 + 1, a.ix),
                             IF q.has1 THEN "Image" ELSE "Link")
    IN  IF ch = ")"
        THEN Reg(INormal, a.ix + 1,
                 Append(PushText(a.buff, Slice(cont, a.last, begin)), t),
                 a.ix + 1, FALSE,
                 a.panic \/ LinkDetailsPanics(Slice(cont, q.b4 + 1, a.ix), IF q.has1 THEN "Image" ELSE "Link"))
        ELSE Reg(a.state, a.last, a.buff, a.ix + 1, FALSE, a.panic)

\* (InlineState::QuickLink(begin), _)
QuickLinkArm(cont, a) ==
    LET ch    == cont[a.ix + 1]
        begin == a.state.b1
        link  == Trim(Slice(cont, begin + 1, a.ix))
        st1   == IF IsWhitespace(ch) /\ link # <<>> /\ ~IsUrl(link) /\ ~IsEmail(link)
                 THEN INormal ELSE a.state
        t     == LinkDetails(Slice(cont, begin, a.ix + 1), link, link, "QuickLink")
    IN  IF ch = ">"
        THEN IF IsUrl(link) \/ IsEmail(link)
             THEN Reg(INormal, a.ix + 1,
                      Append(PushText(a.buff, Slice(cont, a.last, begin)), t),
                      a.ix + 1, FALSE,
                      a.panic \/ LinkDetailsPanics(link, "QuickLink"))
             ELSE Reg(INormal, a.last, a.buff, a.ix + 1, FALSE, a.panic)
        ELSE Reg(st1, a.last, a.buff, a.ix + 1, FALSE, a.panic)

\* (InlineState::Continuous(begin), _)
ContinuousArm(cont, a) ==
    LET ch == cont[a.ix + 1]
    IN  IF Peek(cont, a.ix, " ") # ch
        THEN Reg(INormal, a.ix + 1,
                 Append(a.buff, Token(Slice(cont, a.state.b1, a.ix + 1), DelimKind(ch))),
                 a.ix + 1, FALSE, a.panic \/ ch \notin DelimChars)
        ELSE Reg(a.state, a.last, a.buff, a.ix + 1, FALSE, a.panic)

\* (InlineState::Finished, _)
FinishedArm(cont, a) == Reg(a.state, a.last, a.buff, a.ix + 1, TRUE, a.panic)

\* The arm of the match that takes (state, ch), in the order of the source
ArmOf(cont, a) ==
    LET ch == cont[a.ix + 1]
    IN  IF ch = "\n" THEN "Newline"
        ELSE IF ch = "\\" THEN "Backslash"
        ELSE a.state.tag

InlineStep(cont, a) ==
    LET arm == ArmOf(cont, a)
    IN  CASE arm = "Newline" -> NewlineArm(cont, a)
          [] arm = "Backslash" -> BackslashArm(cont, a)
          [] arm = "Skip" -> SkipArm(cont, a)
          [] arm = "Normal" -> NormalArm(cont, a)
          [] arm = "ImgBegin" -> ImgBeginArm(cont, a)
          [] arm = "ImgNameBegin" -> ImgNameBeginArm(cont, a)
          [] arm = "LinkNameBegin" -> LinkNameBeginArm(cont, a)
          [] arm = "NameEnd" -> NameEndArm(cont, a)
          [] arm = "RefLink" -> RefLinkArm(cont, a)
          [] arm = "RefLinkDef" -> RefLinkDefArm(cont, a)
          [] arm = "Location" -> LocationArm(cont, a)
          [] arm = "QuickLink" -> QuickLinkArm(cont, a)
          [] arm = "Continuous" -> ContinuousArm(cont, a)
          [] arm = "Finished" -> FinishedArm(cont, a)

\* split_inline's loop has ended (iterator exhausted, or break)
InlineEnded(cont, a) == a.brk \/ a.ix >= Len(cont)

RECURSIVE InlineRun(_, _)
InlineRun(cont, a) ==
    IF InlineEnded(cont, a) THEN a ELSE InlineRun(cont, InlineStep(cont, a))

\* The line-break test that knows the two trailing spaces only
HasBrSpacesOnly(s) == EndsWith(s, <<" ", " ", "\n">>)

\* Lexer::has_br
HasBr(s) == EndsWith(s, <<" ", " ", "\n">>) \/ EndsWith(TrimEnd(s), BR)

\* split_inline, after the loop: the LineBreak token
PushBr(cont, b) == IF HasBr(cont) THEN Append(b, Token(BR, "LineBreak")) ELSE b

----------------------------------------------------------------------------
(* Tidy pass *)

RawKinds == {"Star", "UnderLine", "BackTick"}

\* The first loop that records a split at the position of the token in the
\* buffer as it is, without the splits before it
RECURSIVE SplitsAtUnshifted(_, _, _, _, _)
SplitsAtUnshifted(b, kind, i, pre, acc) ==
    IF i > Len(b) THEN acc
    ELSE IF b[i].kind # kind THEN SplitsAtUnshifted(b, kind, i + 1, pre, acc)
    ELSE LET len == Len(b[i].value)
         IN  IF len >= pre /\ pre > 0
             THEN IF len - pre > 0
                  THEN SplitsAtUnshifted(b, kind, i + 1, len - pre,
                                         Append(acc, <<i - 1, pre>>))
                  ELSE SplitsAtUnshifted(b, kind, i + 1, 0, acc)
             ELSE SplitsAtUnshifted(b, kind, i + 1, len, acc)

\* tidy_continuous_mark, first loop: the (position, length) pairs of splits_at.
\* i is the 1-based position of the token examined, pre the tracked length.
RECURSIVE SplitsAt(_, _, _, _, _)
SplitsAt(b, kind, i, pre, acc) ==
    IF i > Len(b) THEN acc
    ELSE IF b[i].kind # kind THEN SplitsAt(b, kind, i + 1, pre, acc)
    ELSE LET len == Len(b[i].value)
         IN  IF len >= pre /\ pre > 0
             THEN IF len - pre > 0
                  THEN SplitsAt(b, kind, i + 1, len - pre,
                                Append(acc, <<(i - 1) + Len(acc), pre>>))
                  ELSE SplitsAt(b, kind, i + 1, 0, acc)
             ELSE SplitsAt(b, kind, i + 1, len, acc)

\* The split that inserts the remainder and leaves the token itself whole
SplitOffKeepsHead(r, p, l) ==
    IF r.panic THEN r
    ELSE IF p >= Len(r.buff) \/ l > Len(r.buff[p + 1].value)
    THEN [buff |-> r.buff, panic |-> TRUE]
    ELSE LET t   == r.buff[p + 1]
             off == Token(SubSeq(t.value, l + 1, Len(t.value)), t.kind)
         IN  [buff  |-> SubSeq(r.buff, 1, p) \o <<t, off>>
                          \o SubSeq(r.buff, p + 2, Len(r.buff)),
              panic |-> FALSE]

\* Token::split_off at position l of the token at 0-based position p, and
\* buff.insert(p + 1, off); panics when p or l is out of range
SplitOff(r, p, l) ==
    IF r.panic THEN r
    ELSE IF p >= Len(r.buff) \/ l > Len(r.buff[p + 1].value)
    THEN [buff |-> r.buff, panic |-> TRUE]
    ELSE LET t    == r.buff[p + 1]
             head == [t EXCEPT !.value = SubSeq(t.value, 1, l)]
             off  == Token(SubSeq(t.value, l + 1, Len(t.value)), t.kind)
         IN  [buff  |-> SubSeq(r.buff, 1, p) \o <<head, off>>
                          \o SubSeq(r.buff, p + 2, Len(r.buff)),
              panic |-> FALSE]

RECURSIVE ApplySplits(_, _, _)
ApplySplits(r, splits, k) ==
    IF k > Len(splits) THEN r
    ELSE ApplySplits(SplitOff(r, splits[k][1], splits[k][2]), splits, k + 1)

\* Lexer::tidy_continuous_mark
TidyContinuousMark(kind, b) ==
    ApplySplits([buff |-> b, panic |-> FALSE], SplitsAt(b, kind, 1, 0, <<>>), 1)

\* tidy's registers: buff, the stack of pending positions (bottom first), the
\* 1-based position of the next token of buff_iter, and the panic flag
TReg(b, st, pos, panic) == [buff |-> b, stack |-> st, pos |-> pos, panic |-> panic]

\* The next token buff_iter yields: the first raw delimiter at or after pos (0: none)
NextRaw(b, pos) ==
    LET S == {i \in pos..Len(b) : b[i].kind \in RawKinds}
    IN  IF S = {} THEN 0 ELSE CHOOSE i \in S : \A j \in S : i <= j

\* stack::Stack::pop_range(|e| e.kind() == t.kind() && e.value() == t.value()):
\* pops the topmost entry that matches and every entry above it; the matched
\* entry comes first in the result
PopRange(st, b, t) ==
    LET M == {j \in 1..Len(st) : b[st[j]].kind = t.kind /\ b[st[j]].value = t.value}
    IN  IF M = {} THEN [pops |-> <<>>, stack |-> st]
        ELSE LET p == CHOOSE j \in M : \A k \in M : k <= j
             IN  [pops |-> SubSeq(st, p, Len(st)), stack |-> SubSeq(st, 1, p - 1)]

\* The kinds of a matched pair with a three-character run taken for a two-character one
MarkKindOfNoItalicBold(v) ==
    IF v \in {<<"*">>, <<"_">>} THEN "ItalicMark"
    ELSE IF v \in {<<"*", "*">>, <<"_", "_">>, <<"*", "*", "*">>, <<"_", "_", "_">>}
    THEN "BoldMark"
    ELSE IF v \in {<<BT>>, <<BT, BT>>, <<BT, BT, BT>>} THEN "CodeMark"
    ELSE "unreachable"

\* tidy: the kind a matched pair takes, by the value of the run
MarkKindOf(v) ==
    IF v \in {<<"*">>, <<"_">>} THEN "ItalicMark"
    ELSE IF v \in {<<"*", "*">>, <<"_", "_">>} THEN "BoldMark"
    ELSE IF v \in {<<"*", "*", "*">>, <<"_", "_", "_">>} THEN "ItalicBoldMark"
    ELSE IF v \in {<<BT>>, <<BT, BT>>, <<BT, BT, BT>>} THEN "CodeMark"
    ELSE "unreachable"

\* update_kind on the last of the positions in ps only
UpdateKindsLastOnly(b, ps, kind) ==
    [i \in 1..Len(b) |-> IF i \in ps /\ \A j \in ps : j <= i
                         THEN [b[i] EXCEPT !.kind = kind] ELSE b[i]]

\* update_kind on the tokens at the positions in ps
UpdateKinds(b, ps, kind) ==
    [i \in 1..Len(b) |-> IF i \in ps THEN [b[i] EXCEPT !.kind = kind] ELSE b[i]]

\* The longest run tidy pushes on the stack is one shorter than this
MinLongRun == 4

\* The iteration of tidy that pushes an unmatched run of any length
TidyStepPushesLongRuns(r, i) ==
    LET t  == r.buff[i]
        pr == PopRange(r.stack, r.buff, t)
        k  == MarkKindOf(t.value)
    IN  IF pr.pops # <<>>
        THEN IF k = "unreachable" THEN TReg(r.buff, pr.stack, i + 1, TRUE)
             ELSE TReg(UpdateKinds(UpdateKinds(r.buff, Range(Tail(pr.pops)), "Text"),
                                   {pr.pops[1], i}, k),
                       pr.stack, i + 1, r.panic)
        ELSE TReg(r.buff, Append(r.stack, i), i + 1, r.panic)

\* The iteration of tidy that leaves the entries above the matched one pending
\* on the stack instead of making them Text
TidyStepKeepsPending(r, i) ==
    LET t  == r.buff[i]
        pr == PopRange(r.stack, r.buff, t)
        k  == MarkKindOf(t.value)
    IN  IF pr.pops # <<>>
        THEN IF k = "unreachable" THEN TReg(r.buff, pr.stack, i + 1, TRUE)
             ELSE TReg(UpdateKinds(r.buff, {pr.pops[1], i}, k),
                       pr.stack \o Tail(pr.pops), i + 1, r.panic)
        ELSE IF Len(t.value) < MinLongRun
        THEN TReg(r.buff, Append(r.stack, i), i + 1, r.panic)
        ELSE TReg(UpdateKinds(r.buff, {i}, "Text"), r.stack, i + 1, r.panic)

\* tidy: one iteration of the loop over buff_iter, on the token at position i
TidyStep(r, i) ==
    LET t  == r.buff[i]
        pr == PopRange(r.stack, r.buff, t)
        k  == MarkKindOf(t.value)
    IN  IF pr.pops # <<>>
        THEN IF k = "unreachable" THEN TReg(r.buff, pr.stack, i + 1, TRUE)
             ELSE TReg(UpdateKinds(UpdateKinds(r.buff, Range(Tail(pr.pops)), "Text"),
                                   {pr.pops[1], i}, k),
                       pr.stack, i + 1, r.panic)
        ELSE IF Len(t.value) < MinLongRun
        THEN TReg(r.buff, Append(r.stack, i), i + 1, r.panic)
        ELSE TReg(UpdateKinds(r.buff, {i}, "Text"), r.stack, i + 1, r.panic)

\* The end of tidy that leaves the elements on the stack as they are
TidyRestKeepsStack(r) == TReg(r.buff, <<>>, r.pos, r.panic)

\* tidy: after the loop, every element left on the stack becomes Text
TidyRest(r) == TReg(UpdateKinds(r.buff, Range(r.stack), "Text"), <<>>, r.pos, r.panic)

RECURSIVE TidyRun(_)
TidyRun(r) ==
    IF r.panic THEN r
    ELSE IF NextRaw(r.buff, r.pos) = 0 THEN TidyRest(r)
    ELSE TidyRun(TidyStep(r, NextRaw(r.buff, r.pos)))

\* Lexer::tidy
Tidy(b) ==
    LET s == TidyContinuousMark("Star", b)
        u == IF s.panic THEN s ELSE TidyContinuousMark("UnderLine", s.buff)
        r == IF u.panic THEN TReg(u.buff, <<>>, 1, TRUE)
             ELSE TidyRun(TReg(u.buff, <<>>, 1, FALSE))
    IN  [buff |-> r.buff, panic |-> r.panic]

----------------------------------------------------------------------------
(* The lexer as a function *)

Reg0 == Reg(INormal, 0, <<>>, 0, FALSE, FALSE)

\* Lexer::split_inline
SplitInline(cont) ==
    LET a == InlineRun(cont, Reg0)
        t == IF a.panic THEN [buff |-> a.buff, panic |-> TRUE]
             ELSE Tidy(PushBr(cont, a.buff))
    IN  t

\* split: .filter(|t| !t.value().is_empty())
NonEmpty(b) == SelectSeq(b, LAMBDA t : t.value # <<>>)

\* Lexer::split
Split(ln) ==
    LET c == Classify(ln, Cls(StBegin, 0, <<>>))
        t == SplitInline(SliceFrom(ln, c.state.begin))
    IN  IF c.state.tag # "Inline" THEN [tokens |-> c.buff, panic |-> FALSE]
        ELSE IF t.panic THEN [tokens |-> c.buff, panic |-> TRUE]
        ELSE [tokens |-> c.buff \o NonEmpty(t.buff), panic |-> FALSE]

----------------------------------------------------------------------------
(* Input lines *)

\* The sequences over A of length at most n
Seqs(A, n) == UNION {[1..k -> A] : k \in 0..n}

\* The alphabets the model draws its lines from, one per group of constructs
Alphabets ==
    {{" ", "#", "a"},                  \* titles
     {" ", "*", "-", "_"},             \* dividing lines and list marks
     {" ", "0", "1", "."},             \* ordered lists
     {" ", ">", "+", "a"},             \* quotes and lists
     {" ", BT, "a"},                   \* code fences and code spans
     {" ", "\t", "a"},                 \* blank lines
     {"*", "_", "a", "\\"},            \* emphasis and escapes
     {"*", BT, "a"},                   \* emphasis around code spans
     {"!", "[", "]", "(", ")"},        \* images and links
     {"[", "]", ":", "a", " "},        \* reference links and definitions
     {"<", ">", "a", ":", "@"}}        \* autolinks

\* The bodies of the model's lines, without the terminating newline
Bodies ==
    UNION {Seqs(A, MaxLen) : A \in Alphabets}

\* Longer bodies of one delimiter character and a letter: several delimiter
\* runs of up to three characters on one line
MaxRunLine == 11

RunBodies ==
    UNION {Seqs({d, "a"}, MaxRunLine) : d \in DelimChars}

\* Inline links and images: [name](clause) after nothing, a letter, ! or a
\* letter and !, followed by nothing or a letter; the clause has up to
\* MaxClause characters
MaxClause == 5

LinkBodies ==
    {pre \o <<"[">> \o nm \o <<"]", "(">> \o cl \o <<")">> \o post :
        pre \in {<<>>, <<"a">>, <<"!">>, <<"a", "!">>},
        nm \in {<<>>, <<"a">>},
        cl \in Seqs({"a", " ", "\""}, MaxClause),
        post \in {<<>>, <<"a">>}}

\* Reference links: [name][tag] after nothing or a letter, followed by
\* nothing or a letter; the tag has up to MaxTag characters
MaxTag == 3

RefBodies ==
    {pre \o <<"[">> \o nm \o <<"]", "[">> \o tag \o <<"]">> \o post :
        pre \in {<<>>, <<"a">>},
        nm \in {<<>>, <<"a">>},
        tag \in Seqs({"a", " "}, MaxTag),
        post \in {<<>>, <<"a">>}}

\* Autolinks: <text> after nothing or a letter, followed by nothing or a
\* letter; the text has up to MaxQuick characters
MaxQuick == 5

QuickBodies ==
    {pre \o <<"<">> \o txt \o <<">">> \o post :
        pre \in {<<>>, <<"a">>},
        txt \in Seqs({"a", ":", "@", " "}, MaxQuick),
        post \in {<<>>, <<"a">>}}

\* Line breaks: <br>, once or twice, after up to MaxBrPad characters and
\* followed by up to MaxBrPad characters
MaxBrPad == 2

BrBodies ==
    {pre \o br \o post :
        pre \in Seqs({"a", " ", "[", "#"}, MaxBrPad),
        br \in {BR, BR \o BR},
        post \in Seqs({" ", "a"}, MaxBrPad)}

\* Names with brackets: [name]() and ![name](), the name of up to MaxName
\* letters and brackets
MaxName == 3

NameBodies ==
    {pre \o <<"[">> \o nm \o <<"]", "(", ")">> :
        pre \in {<<>>, <<"!">>},
        nm \in Seqs({"a", "[", "]"}, MaxName)}

\* Links with a title in single or double quotes: [](a "title"), the text
\* between the quotes of up to MaxTitle letters, quotes and backslashes
MaxTitle == 2

TitleBodies ==
    {<<"[", "]", "(", "a", " ", q>> \o body \o <<q, ")">> :
        q \in QuoteChars,
        body \in Seqs({"a", "\"", "'", "\\"}, MaxTitle)}

\* A backslash and a character inside an image, link, reference link or
\* autolink that is open, followed by what would close the construct
\* or a delimiter or construct
OpenBodies ==
    {open \o tail :
        open \in {<<"!">>, <<"!", "[">>, <<"[">>, <<"[", "a", "]">>,
                  <<"[", "a", "]", "[">>, <<"[", "a", "]", "(">>, <<"<", "a", ":">>},
        tail \in {<<"\\", x>> \o close :
                      x \in {"]", ")", ">", "*", "\\", "a"},
                      close \in {<<>>, <<"a">>, <<"]">>, <<"]", "(", "a", ")">>, <<")">>,
                                 <<">">>, <<"*", "a", "*">>}}
                  \cup {<<"*", "a", "*">>, <<"_", "_">>, <<BT, "a", BT>>,
                        <<"[", "a", "]", "(", ")">>, <<"!", "[", "]", "(", ")">>,
                        <<"<", "a", ":", ">">>}}

\* A block mark, one or two whitespace characters and a text
MarkBodies ==
    {mk \o ws \o txt :
        mk \in {<<"#">>, <<"1", ".">>, <<">">>, <<"+">>},
        ws \in {<<" ">>, <<" ", " ">>, <<" ", "\t">>},
        txt \in {<<"a">>, <<"*", "a", "*">>, <<"[", "a", "]", ":", "a">>,
                 <<"[", "a", "]", ":", " ", "a">>, <<"[", "a", "]", "(", "a", ")">>}}

AllBodies ==
    Bodies \cup RunBodies \cup LinkBodies \cup RefBodies \cup QuickBodies \cup BrBodies
        \cup NameBodies \cup MarkBodies \cup TitleBodies \cup OpenBodies

\* A line is a body with or without its terminating newline
Lines == AllBodies \cup {b \o <<"\n">> : b \in AllBodies}

----------------------------------------------------------------------------
(* The lexer as a state machine *)

\* Lexer::new and the start of split; Line::parse is not running
Init ==
    /\ text = <<>> /\ line_num = 0 /\ ppc = "idle" /\ current = 0
    /\ sm_state = "Begin" /\ pointer = 0 /\ times = 0
    /\ tokens = <<>> /\ line_kind = "Unknow"
    /\ line \in Lines
    /\ pc = "split"
    /\ state = StBegin
    /\ ix = 0
    /\ buff = <<>>
    /\ content = <<>>
    /\ istate = INormal
    /\ last = 0
    /\ ibuff = <<>>
    /\ iix = 0
    /\ stack = <<>>
    /\ tpos = 1
    /\ panicked = FALSE

inlineVars == <<content, istate, last, ibuff, iix>>
tidyVars == <<stack, tpos>>

\* The classifier's registers in the current state
C == Cls(state, ix, buff)

\* split: one iteration of the loop over line_text takes the classifier to c
SplitIter(c) ==
    /\ pc = "split"
    /\ ~LoopEnded(line, C)
    /\ state' = c.state /\ ix' = c.ix /\ buff' = c.buff
    /\ UNCHANGED <<parseVars, line, pc, inlineVars, tidyVars, panicked>>

SplitBegin ==
    /\ state.tag = "Begin"
    /\ SplitIter(BeginArm(line, C))

SplitMark ==
    /\ state.tag = "Mark"
    /\ SplitIter(MarkArm(line, C))

\* split: after the loop, if let State::Inline(begin): split_inline(slice_rest(begin))
SplitToInline ==
    /\ pc = "split"
    /\ LoopEnded(line, C)
    /\ state.tag = "Inline"
    /\ content' = SliceFrom(line, state.begin)
    /\ istate' = Reg0.state /\ last' = Reg0.last /\ ibuff' = Reg0.buff /\ iix' = Reg0.ix
    /\ pc' = "inline"
    /\ UNCHANGED <<parseVars, line, state, ix, buff, tidyVars, panicked>>

\* split: after the loop, in any other state: return buff
SplitReturn ==
    /\ pc = "split"
    /\ LoopEnded(line, C)
    /\ state.tag # "Inline"
    /\ pc' = "done"
    /\ UNCHANGED <<parseVars, line, state, ix, buff, inlineVars, tidyVars, panicked>>

\* split_inline's registers in the current state
R == Reg(istate, last, ibuff, iix, pc # "inline", panicked)

\* The loop of split_inline is at a character that the given arm takes
AtArm(arm) ==
    /\ pc = "inline"
    /\ ~InlineEnded(content, R)
    /\ ArmOf(content, R) = arm

\* split_inline: one iteration of the loop over content takes the registers to a
InlineIter(a) ==
    /\ istate' = a.state /\ last' = a.last /\ ibuff' = a.buff /\ iix' = a.ix
    /\ panicked' = a.panic
    /\ pc' = IF a.panic THEN "aborted" ELSE IF a.brk THEN "inline_end" ELSE "inline"
    /\ UNCHANGED <<parseVars, line, state, ix, buff, content, tidyVars>>

InlineNewline ==
    /\ AtArm("Newline")
    /\ InlineIter(NewlineArm(content, R))

InlineBackslash ==
    /\ AtArm("Backslash")
    /\ InlineIter(BackslashArm(content, R))

InlineSkip ==
    /\ AtArm("Skip")
    /\ InlineIter(SkipArm(content, R))

InlineNormal ==
    /\ AtArm("Normal")
    /\ InlineIter(NormalArm(content, R))

InlineImgBegin ==
    /\ AtArm("ImgBegin")
    /\ InlineIter(ImgBeginArm(content, R))

InlineImgNameBegin ==
    /\ AtArm("ImgNameBegin")
    /\ InlineIter(ImgNameBeginArm(content, R))

InlineLinkNameBegin ==
    /\ AtArm("LinkNameBegin")
    /\ InlineIter(LinkNameBeginArm(content, R))

InlineNameEnd ==
    /\ AtArm("NameEnd")
    /\ InlineIter(NameEndArm(content, R))

InlineRefLink ==
    /\ AtArm("RefLink")
    /\ InlineIter(RefLinkArm(content, R))

InlineRefLinkDef ==
    /\ AtArm("RefLinkDef")
    /\ InlineIter(RefLinkDefArm(content, R))

InlineLocation ==
    /\ AtArm("Location")
    /\ InlineIter(LocationArm(content, R))

InlineQuickLink ==
    /\ AtArm("QuickLink")
    /\ InlineIter(QuickLinkArm(content, R))

InlineContinuous ==
    /\ AtArm("Continuous")
    /\ InlineIter(ContinuousArm(content, R))

InlineFinished ==
    /\ AtArm("Finished")
    /\ InlineIter(FinishedArm(content, R))

\* split_inline: after the loop, the LineBreak token; then tidy is called
InlineEnd ==
    /\ \/ pc = "inline_end"
       \/ pc = "inline" /\ InlineEnded(content, R)
    /\ ibuff' = PushBr(content, ibuff)
    /\ pc' = "tidy_star"
    /\ UNCHANGED <<parseVars, line, state, ix, buff, content, istate, last, iix, tidyVars, panicked>>

\* tidy: tidy_continuous_mark(kind, buff)
Normalize(kind, next) ==
    /\ LET r == TidyContinuousMark(kind, ibuff)
       IN  /\ ibuff' = r.buff
           /\ panicked' = r.panic
           /\ pc' = IF r.panic THEN "aborted" ELSE next
    /\ stack' = <<>>
    /\ tpos' = 1
    /\ UNCHANGED <<parseVars, line, state, ix, buff, content, istate, last, iix>>

TidyStar ==
    /\ pc = "tidy_star"
    /\ Normalize("Star", "tidy_underline")

TidyUnderLine ==
    /\ pc = "tidy_underline"
    /\ Normalize("UnderLine", "tidy")

\* tidy's registers in the current state
T == TReg(ibuff, stack, tpos, panicked)

\* The token buff_iter yields next, and whether pop_range finds it in the stack
NextTok == ibuff[NextRaw(ibuff, tpos)]
Found == PopRange(stack, ibuff, NextTok).pops # <<>>

\* tidy: one iteration of the loop over buff_iter
TidyIter ==
    /\ pc = "tidy"
    /\ NextRaw(ibuff, tpos) # 0
    /\ LET r == TidyStep(T, NextRaw(ibuff, tpos))
       IN  /\ ibuff' = r.buff /\ stack' = r.stack /\ tpos' = r.pos
           /\ panicked' = r.panic
           /\ pc' = IF r.panic THEN "aborted" ELSE "tidy"
    /\ UNCHANGED <<parseVars, line, state, ix, buff, content, istate, last, iix>>

\* found in the stack
TidyMatch ==
    /\ pc = "tidy" /\ NextRaw(ibuff, tpos) # 0
    /\ Found
    /\ TidyIter

\* not found in the stack, and shorter than 4: pushed
TidyPush ==
    /\ pc = "tidy" /\ NextRaw(ibuff, tpos) # 0
    /\ ~Found /\ Len(NextTok.value) < MinLongRun
    /\ TidyIter

\* not found in the stack, and longer: Text
TidyDemote ==
    /\ pc = "tidy" /\ NextRaw(ibuff, tpos) # 0
    /\ ~Found /\ Len(NextTok.value) >= MinLongRun
    /\ TidyIter

\* tidy: after the loop, the elements left on the stack; split_inline returns buff
TidyFinish ==
    /\ pc = "tidy"
    /\ NextRaw(ibuff, tpos) = 0
    /\ LET r == TidyRest(T)
       IN  ibuff' = r.buff /\ stack' = r.stack
    /\ pc' = "return"
    /\ UNCHANGED <<parseVars, line, state, ix, buff, content, istate, last, iix, tpos, panicked>>

\* split: the tokens of split_inline whose value is not empty are pushed
SplitPush ==
    /\ pc = "return"
    /\ buff' = buff \o NonEmpty(ibuff)
    /\ pc' = "done"
    /\ UNCHANGED <<parseVars, line, state, ix, inlineVars, tidyVars, panicked>>

Next ==
    \/ SplitBegin \/ SplitMark \/ SplitToInline \/ SplitReturn
    \/ InlineNewline \/ InlineBackslash \/ InlineSkip \/ InlineNormal
    \/ InlineImgBegin \/ InlineImgNameBegin \/ InlineLinkNameBegin \/ InlineNameEnd
    \/ InlineRefLink \/ InlineRefLinkDef \/ InlineLocation \/ InlineQuickLink
    \/ InlineContinuous \/ InlineFinished \/ InlineEnd
    \/ TidyStar \/ TidyUnderLine \/ TidyMatch \/ TidyPush \/ TidyDemote \/ TidyFinish
    \/ SplitPush

Spec == Init /\ [][Next]_vars

----------------------------------------------------------------------------
(* Line::parse and its StateMachine (src/src/lib.rs) *)

\* Stands for a letter that takes two bytes in UTF-8
WIDE == "W"

\* str::len: the length in bytes
RECURSIVE ByteLen(_)
ByteLen(s) ==
    IF s = <<>> THEN 0 ELSE (IF Head(s) = WIDE THEN 2 ELSE 1) + ByteLen(Tail(s))

\* &s[begin..end], indexed by bytes: ok is FALSE when the index panics (an
\* index that is not on a character boundary, or begin after end)
ByteSlice(s, begin, end) ==
    LET Cut(b) == {k \in 0..Len(s) : ByteLen(SubSeq(s, 1, k)) = b}
        Chars(b) == CHOOSE k \in Cut(b) : TRUE
    IN  IF begin <= end /\ Cut(begin) # {} /\ Cut(end) # {}
        THEN [ok |-> TRUE, value |-> SubSeq(s, Chars(begin) + 1, Chars(end))]
        ELSE [ok |-> FALSE, value |-> <<>>]

\* lib.rs Token
LineToken(value, kind, n) == [value |-> value, kind |-> kind, line_num |-> n]

\* StateMachine's registers after a handler: state, pointer, times, the token
\* it returned (a sequence of no or one token), and whether it panicked
SM(st, p, t, out, panic) ==
    [state |-> st, pointer |-> p, times |-> t, out |-> out, panic |-> panic]

\* StateMachine::skip_begin_whitespaces
SkipBeginWhitespaces(m, cur, ch) ==
    IF IsWhitespace(ch)
    THEN IF ch = "\n"
         THEN SM("Finished", 0, m.times, <<LineToken(<<>>, "BlankLine", 0)>>, FALSE)
         ELSE SM(m.state, m.pointer, m.times, <<>>, FALSE)
    ELSE SM("CheckMark", cur, m.times, <<>>, FALSE)

\* StateMachine::find_word: some is FALSE for None
FindWord(txt, m, cur) ==
    LET w == ByteSlice(txt, m.pointer, cur)
    IN  IF IsWhitespace(txt[cur + 1])
        THEN [some |-> TRUE, word |-> w.value, panic |-> ~w.ok]
        ELSE [some |-> FALSE, word |-> <<>>, panic |-> FALSE]

\* StateMachine::check_mark
CheckMark(txt, m, cur) ==
    LET f  == FindWord(txt, m, cur)
        Mark(st, kind) == SM(st, cur, m.times, <<LineToken(f.word, kind, 0)>>, FALSE)
    IN  IF f.panic THEN SM(m.state, m.pointer, m.times, <<>>, TRUE)
        ELSE IF ~f.some THEN SM(m.state, m.pointer, m.times, <<>>, FALSE)
        ELSE IF f.word \in {[i \in 1..n |-> "#"] : n \in 1..5} THEN Mark("Title", "TitleMark")
        ELSE IF f.word \in {<<"*">>, <<"-">>, <<"+">>}
        THEN Mark("DisorderedList", "DisorderMark")
        ELSE IF f.word \in {<<"*", "*", "*">>, <<"-", "-", "-">>, <<"_", "_", "_">>}
        THEN Mark("CheckDividing", "DividingMark")
        ELSE IF f.word = <<">">> THEN Mark("Quote", "QuoteMark")
        ELSE SM("Plain", m.pointer, m.times + 1, <<>>, FALSE)

\* parse_title, parse_disordered_list, parse_quote: the rest of the line as a
\* token of the given kind, after the whitespace that follows the mark
ParseRest(txt, m, cur, ch, kind) ==
    LET rest == ByteSlice(txt, cur, ByteLen(txt))
    IN  IF IsWhitespace(ch) THEN SM(m.state, m.pointer, m.times, <<>>, FALSE)
        ELSE IF ~rest.ok THEN SM("Finished", m.pointer, m.times, <<>>, TRUE)
        ELSE SM("Finished", m.pointer, m.times,
                <<LineToken(TrimEndChars(rest.value, {"\n"}), kind, 0)>>, FALSE)

\* StateMachine::parse_title
ParseTitle(txt, m, cur, ch) == ParseRest(txt, m, cur, ch, "Title")

\* StateMachine::parse_disordered_list
ParseDisorderedList(txt, m, cur, ch) == ParseRest(txt, m, cur, ch, "DisorderListItem")

\* StateMachine::parse_quote
ParseQuote(txt, m, cur, ch) == ParseRest(txt, m, cur, ch, "Quote")

\* StateMachine::parse_plain
ParsePlain(txt, m, cur, ch) ==
    LET cont == ByteSlice(txt, m.pointer, ByteLen(txt))
    IN  IF ~cont.ok THEN SM("Finished", m.pointer, m.times, <<>>, TRUE)
        ELSE SM("Finished", m.pointer, m.times,
                <<LineToken(TrimEndChars(cont.value, {"\n"}), "Plain", 0)>>, FALSE)

\* The kind of the line taken from its last token
LineKindOfLastToken(toks) ==
    IF toks = <<>> THEN "Unknow"
    ELSE IF toks[Len(toks)].kind = "BlankLine" THEN "Blank"
    ELSE IF toks[Len(toks)].kind = "TitleMark" THEN "Title"
    ELSE IF toks[Len(toks)].kind = "Plain" THEN "Plain"
    ELSE "Unknow"

\* Line::parse: match tokens.first()
LineKindOf(toks) ==
    IF toks = <<>> THEN "Unknow"
    ELSE IF toks[1].kind = "BlankLine" THEN "Blank"
    ELSE IF toks[1].kind = "TitleMark" THEN "Title"
    ELSE IF toks[1].kind = "Plain" THEN "Plain"
    ELSE "Unknow"

\* The texts Line::parse is called with: up to MaxText characters of one of
\* four alphabets, with or without the terminating newline
MaxText == 5

Texts ==
    LET B == UNION {Seqs(A, MaxText) :
                       A \in {{" ", "#", "a"}, {" ", "*", "-", "+"},
                              {" ", "_", ">", "a"}, {" ", "\t", "#", WIDE}}}
    IN  B \cup {b \o <<"\n">> : b \in B}

lexerVars ==
    <<line, pc, state, ix, buff, content, istate, last, ibuff, iix, stack, tpos, panicked>>

\* Line::parse(ln, line): StateMachine::new(&line); Lexer::split is not
\* running
LineInit ==
    /\ line = <<>> /\ pc = "idle" /\ state = StBegin /\ ix = 0 /\ buff = <<>>
    /\ content = <<>> /\ istate = INormal /\ last = 0 /\ ibuff = <<>> /\ iix = 0
    /\ stack = <<>> /\ tpos = 1 /\ panicked = FALSE
    /\ text \in Texts
    /\ line_num \in {1, 2}
    /\ ppc = "parse"
    /\ current = 0
    /\ sm_state = "Begin" /\ pointer = 0 /\ times = 0 /\ tokens = <<>>
    /\ line_kind = "Unknow"

\* Line::parse: the loop yields (current, ch) and calls statem.process, which
\* sets times to 1
ParseCall ==
    /\ ppc = "parse"
    /\ current < Len(text)
    /\ times' = 1
    /\ ppc' = "process"
    /\ UNCHANGED <<lexerVars, text, line_num, current, sm_state, pointer, tokens, line_kind>>

\* StateMachine's registers inside the loop of process, after times -= 1
M == [state |-> sm_state, pointer |-> pointer, times |-> times - 1]

\* process: one iteration of the while loop, in state st, took the registers
\* to r.  When times is 0 process returns; Line::parse leaves its loop if the
\* state is Finished and goes to the next character otherwise
ProcessIter(st, r) ==
    /\ ppc = "process" /\ times > 0 /\ sm_state = st
    /\ tokens' = tokens \o r.out
    /\ sm_state' = r.state /\ pointer' = r.pointer /\ times' = r.times
    /\ ppc' = IF r.panic THEN "aborted"
              ELSE IF r.times > 0 THEN "process"
              ELSE IF r.state = "Finished" THEN "close"
              ELSE "parse"
    /\ current' = IF ~r.panic /\ r.times = 0 /\ r.state # "Finished"
                  THEN current + 1 ELSE current
    /\ UNCHANGED <<lexerVars, text, line_num, line_kind>>

ProcessBegin ==
    ProcessIter("Begin", SkipBeginWhitespaces(M, current, text[current + 1]))

ProcessCheckMark ==
    ProcessIter("CheckMark", CheckMark(text, M, current))

ProcessTitle ==
    ProcessIter("Title", ParseTitle(text, M, current, text[current + 1]))

ProcessDisorderedList ==
    ProcessIter("DisorderedList", ParseDisorderedList(text, M, current, text[current + 1]))

\* State::CheckDividing => None
ProcessCheckDividing ==
    ProcessIter("CheckDividing", SM(M.state, M.pointer, M.times, <<>>, FALSE))

ProcessQuote ==
    ProcessIter("Quote", ParseQuote(text, M, current, text[current + 1]))

ProcessPlain ==
    ProcessIter("Plain", ParsePlain(text, M, current, text[current + 1]))

\* Line::parse after the loop: statem.close(), the line numbers, the kind
ParseClose ==
    /\ \/ ppc = "close"
       \/ ppc = "parse" /\ current >= Len(text)
    /\ tokens' = [i \in 1..Len(tokens) |-> [tokens[i] EXCEPT !.line_num = line_num]]
    /\ line_kind' = LineKindOf(tokens')
    /\ ppc' = "done"
    /\ UNCHANGED <<lexerVars, text, line_num, current, sm_state, pointer, times>>

LineNext ==
    \/ ParseCall
    \/ ProcessBegin \/ ProcessCheckMark \/ ProcessTitle \/ ProcessDisorderedList
    \/ ProcessCheckDividing \/ ProcessQuote \/ ProcessPlain
    \/ ParseClose

LineSpec == LineInit /\ [][LineNext]_vars

----------------------------------------------------------------------------

(* What the claims say about a line, read off the line itself *)

Done == pc = "done"

HasNewline == line # <<>> /\ line[Len(line)] = "\n"

AllWhitespace == \A i \in 1..Len(line) : IsWhitespace(line[i])

\* The number of whitespace characters the line starts with
LeadLen ==
    IF AllWhitespace THEN Len(line)
    ELSE (CHOOSE i \in 1..Len(line) :
              ~IsWhitespace(line[i]) /\ \A j \in 1..(i - 1) : IsWhitespace(line[j])) - 1

\* The 0-based position of the whitespace character that ends the first word
\* (the length of the line when no whitespace follows the word)
WordEnd ==
    LET S == {i \in (LeadLen + 1)..Len(line) : IsWhitespace(line[i])}
    IN  IF S = {} THEN Len(line) ELSE (CHOOSE i \in S : \A j \in S : i <= j) - 1

FirstWord == SubSeq(line, LeadLen + 1, WordEnd)

\* The line has a first word and a whitespace character ends it
WordDelimited == FirstWord # <<>> /\ WordEnd < Len(line)

\* The line without its terminating newline
Unterminated == IF HasNewline THEN SubSeq(line, 1, Len(line) - 1) ELSE line

\* The dividing-line test of the specification: ignoring whitespace, the line
\* is three or more occurrences of one character of * - _ and nothing else
DividingLine ==
    LET nonws == SelectSeq(line, LAMBDA c : ~IsWhitespace(c))
    IN  /\ Len(nonws) >= 3
        /\ nonws[1] \in {"*", "-", "_"}
        /\ \A i \in 1..Len(nonws) : nonws[i] = nonws[1]

\* The position in the result of the token of the first word: after the
\* WhiteSpace token when the line starts with whitespace
MarkPos == IF LeadLen > 0 THEN 2 ELSE 1

BlockMarks == {i \in 1..Len(buff) : buff[i].kind \in BlockMarkKinds}

AllChars(w, c) == \A i \in 1..Len(w) : w[i] = c

\* The result has the given mark as the token of the first word
MarkIs(value, kind) ==
    /\ Len(buff) >= MarkPos
    /\ buff[MarkPos] = Token(value, kind)

\* No block mark was emitted and inline tokenizing starts at the first word
NoMarkInlineAtWord == BlockMarks = {} /\ state = StInline(LeadLen)

----------------------------------------------------------------------------
(* Claims *)

\* C1: split never aborts: no state is reached in which a panic!, an
\* unreachable!() arm or an out-of-range split_off was hit, the lexer called as a
\* function does not panic either, and a finished run holds a sequence of tokens.
C1_NeverAborts ==
    /\ ~panicked
    /\ pc # "aborted"
    /\ Done => /\ ~Split(line).panic
               /\ \A i \in 1..Len(buff) : buff[i].kind \in TokenKind

\* C1 witness: a line went through the classifier, the inline automaton (a
\* delimiter run), the normalization and the stack matching.
C1_Witness ==
    /\ Done /\ ~panicked
    /\ \E i \in 1..Len(buff) : buff[i].kind = "BoldMark"

\* C2: for a line of whitespace only, with or without newline, the result is
\* exactly one BlankLine token holding the whitespace, and no inline phase runs.
C2_BlankLine ==
    (Done /\ AllWhitespace) =>
        /\ buff = <<Token(Unterminated, "BlankLine")>>
        /\ state.tag # "Inline"

\* C3: for a line whose non-whitespace content is one of * - _ repeated three or
\* more times, the result is exactly one DividingMark token whose value is the
\* line without its newline.
C3_DividingOnly ==
    (Done /\ DividingLine) => buff = <<Token(Unterminated, "DividingMark")>>

\* C4: a first word of one to four # ended by whitespace gives a TitleMark with
\* the word as value, > a QuoteMark, + an UnorderedMark; a word that starts with
\* one of these characters and is none of these marks (five or more #, or the
\* character glued to text) gives no block mark, and inline tokenizing starts at
\* the first character of the word.
C4_SimpleMarks ==
    (Done /\ WordDelimited) =>
        /\ (AllChars(FirstWord, "#") /\ Len(FirstWord) <= 4) =>
               MarkIs(FirstWord, "TitleMark") /\ state = StInline(WordEnd + 1)
        /\ FirstWord = <<">">> =>
               MarkIs(FirstWord, "QuoteMark") /\ state = StInline(WordEnd + 1)
        /\ FirstWord = <<"+">> =>
               MarkIs(FirstWord, "UnorderedMark") /\ state = StInline(WordEnd + 1)
        /\ (/\ FirstWord[1] \in {"#", ">", "+"}
            /\ ~(AllChars(FirstWord, "#") /\ Len(FirstWord) <= 4)
            /\ FirstWord \notin {<<">">>, <<"+">>}) => NoMarkInlineAtWord

\* C4 witness: a line whose first word is five # was lexed, and no mark came out.
C4_Witness ==
    /\ Done /\ WordDelimited
    /\ Len(FirstWord) = 5 /\ AllChars(FirstWord, "#")
    /\ BlockMarks = {}

\* The first word is a run of one to three of the given first digits and
\* decimal digits, followed by "."
DigitRunDot(first) ==
    /\ Len(FirstWord) \in 2..4
    /\ FirstWord[Len(FirstWord)] = "."
    /\ FirstWord[1] \in first
    /\ \A i \in 2..(Len(FirstWord) - 1) : FirstWord[i] \in Digits09

\* C5 as stated: every run of one to three decimal digits followed by "." and
\* whitespace gives an OrderedMark whose value is the word.
C5_AnyDigitRun ==
    (Done /\ WordDelimited /\ DigitRunDot(Digits09)) => MarkIs(FirstWord, "OrderedMark")

\* C5 as amended: a run of one to three decimal digits whose first digit is 1 to
\* 9, followed by "." and whitespace, gives an OrderedMark whose value is the word.
C5_OrderedMark ==
    (Done /\ WordDelimited /\ DigitRunDot(Digits19)) =>
        MarkIs(FirstWord, "OrderedMark") /\ state = StInline(WordEnd + 1)

\* C5 witness: a three-digit ordered mark was emitted.
C5_Witness ==
    /\ Done /\ WordDelimited /\ DigitRunDot(Digits19) /\ Len(FirstWord) = 4
    /\ MarkIs(FirstWord, "OrderedMark")

\* C6: when the first word is * or - alone: a line that passes the dividing-line
\* test gives a DividingMark and the inline phase does not run, any other line
\* gives an UnorderedMark with the word as value and the rest of the line is
\* tokenized inline. No line with two different non-whitespace characters gives
\* a DividingMark.
C6_ListOrDividing ==
    /\ (Done /\ WordDelimited /\ FirstWord \in {<<"*">>, <<"-">>}) =>
           IF DividingLine
           THEN /\ Len(buff) = MarkPos
                /\ buff[MarkPos].kind = "DividingMark"
                /\ state = StFinished
                /\ ibuff = <<>> /\ iix = 0
           ELSE /\ MarkIs(FirstWord, "UnorderedMark")
                /\ state = StInline(WordEnd + 1)
                /\ content = SliceFrom(line, WordEnd + 1)
    /\ (\E i \in 1..Len(buff) : buff[i].kind = "DividingMark") =>
           Cardinality({c \in Range(line) : ~IsWhitespace(c)}) = 1

\* C6 witness: a line whose first word is * alone came out as a dividing line.
C6_Witness ==
    /\ Done /\ WordDelimited /\ FirstWord = <<"*">>
    /\ LeadLen = 0
    /\ buff = <<Token(Unterminated, "DividingMark")>>

\* C7: a first word that starts with three backticks gives a CodeBlockMark whose
\* value is the three backticks, and inline tokenizing starts three characters
\* after the start of the word: a tag of letters glued to the fence comes out as
\* the Text token after the mark.
C7_CodeFence ==
    (Done /\ WordDelimited /\ Len(FirstWord) >= 3
          /\ AllChars(SubSeq(FirstWord, 1, 3), BT)) =>
        /\ MarkIs(<<BT, BT, BT>>, "CodeBlockMark")
        /\ state = StInline(LeadLen + 3)
        /\ content = SliceFrom(line, LeadLen + 3)
        /\ (/\ Len(FirstWord) > 3
            /\ AllChars(SubSeq(FirstWord, 4, Len(FirstWord)), "a")
            /\ HasNewline /\ WordEnd = Len(line) - 1) =>
               /\ Len(buff) = MarkPos + 1
               /\ buff[MarkPos + 1] = Token(SubSeq(FirstWord, 4, Len(FirstWord)), "Text")

\* C7 witness: a fence with a language tag gave the mark and the tag as Text.
C7_Witness ==
    /\ Done /\ HasNewline
    /\ FirstWord = <<BT, BT, BT, "a">>
    /\ buff = <<Token(<<BT, BT, BT>>, "CodeBlockMark"), Token(<<"a">>, "Text")>>

\* The first word is one the classifier has an arm for
Recognized(w) ==
    \/ AllChars(w, "#") /\ Len(w) <= 4
    \/ /\ Len(w) \in 2..4 /\ w[Len(w)] = "." /\ w[1] \in Digits19
       /\ \A i \in 2..(Len(w) - 1) : w[i] \in Digits09
    \/ w \in {<<">">>, <<"+">>, <<"*">>, <<"-">>}
    \/ Len(w) >= 3 /\ AllChars(SubSeq(w, 1, 3), BT)
    \/ w[1] \in {"*", "-", "_"}

\* C8: a first word that starts with * - or _, is not * or - alone, in a line
\* that fails the dividing-line test, gives no block mark and inline tokenizing
\* starts at the first character of the word; so does every first word the
\* classifier has no arm for.
C8_NoMark ==
    (Done /\ WordDelimited) =>
        /\ (/\ FirstWord[1] \in {"*", "-", "_"}
            /\ FirstWord \notin {<<"*">>, <<"-">>}
            /\ ~DividingLine) =>
               NoMarkInlineAtWord /\ content = SliceFrom(line, LeadLen)
        /\ ~Recognized(FirstWord) =>
               NoMarkInlineAtWord /\ content = SliceFrom(line, LeadLen)

\* C8 witness: a word of several _ in a line that is no dividing line was
\* tokenized inline from its first character.
C8_Witness ==
    /\ Done /\ WordDelimited
    /\ Len(FirstWord) > 1 /\ FirstWord[1] = "_" /\ ~DividingLine
    /\ LeadLen > 0
    /\ state = StInline(LeadLen)
    /\ \E i \in 1..Len(buff) : buff[i].kind = "Text"

\* C9 as stated: the result holds at most one block mark, and a block mark is
\* the first token of the result.
C9_MarkFirst ==
    /\ Cardinality(BlockMarks) <= 1
    /\ BlockMarks \subseteq {1}

\* C9 as amended: the result holds at most one block mark; a block mark is the
\* first token of the result when the line does not start with whitespace, and
\* the second when it does, after one WhiteSpace token that holds the leading
\* whitespace.
C9_MarkAfterWhiteSpace ==
    /\ Cardinality(BlockMarks) <= 1
    /\ BlockMarks \subseteq {MarkPos}
    /\ \A i \in 1..Len(buff) :
           buff[i].kind = "WhiteSpace" =>
               i = 1 /\ LeadLen > 0 /\ buff[i].value = SubSeq(line, 1, LeadLen)
    /\ (BlockMarks # {} /\ LeadLen > 0) => buff[1].kind = "WhiteSpace"

\* C9 witness: a finished run whose second token is a block mark.
C9_Witness ==
    /\ Done
    /\ 2 \in BlockMarks
    /\ Len(buff) >= 3

\* C10: a line without newline gives the tokens the line followed by a newline
\* gives.
C10_NewlineOptional ==
    (Done /\ ~HasNewline) => buff = Split(line \o <<"\n">>).tokens

----------------------------------------------------------------------------
(* Claims about the inline automaton and the tidy pass *)

\* The line is one word, ended by its newline, that is no block mark: the inline
\* content is the whole line.
OneWordInline ==
    /\ HasNewline /\ LeadLen = 0 /\ WordEnd = Len(line) - 1
    /\ state = StInline(0)

\* The values of the tokens, concatenated
RECURSIVE Concat(_)
Concat(b) == IF b = <<>> THEN <<>> ELSE Head(b).value \o Concat(Tail(b))

\* The kind of the token that holds the p-th character of Concat(b)
RECURSIVE KindAt(_, _)
KindAt(b, p) ==
    IF b = <<>> THEN "none"
    ELSE IF p <= Len(Head(b).value) THEN Head(b).kind
    ELSE KindAt(Tail(b), p - Len(Head(b).value))

\* Escapes as the specification reads them: scanning s from its i-th character,
\* a backslash followed by a reserved character is dropped and the character is
\* kept literally.  out is the text read so far, lit the positions in out of
\* the escaped characters.
RECURSIVE Unescape(_, _, _)
Unescape(s, i, acc) ==
    IF i > Len(s) THEN acc
    ELSE IF s[i] = "\\" /\ i < Len(s) /\ s[i + 1] \in ESCAPE_CHARS
    THEN Unescape(s, i + 2, [out |-> Append(acc.out, s[i + 1]),
                             lit |-> acc.lit \cup {Len(acc.out) + 1}])
    ELSE Unescape(s, i + 1, [out |-> Append(acc.out, s[i]), lit |-> acc.lit])

Unescaped == Unescape(Unterminated, 1, [out |-> <<>>, lit |-> {}])

\* C11: a backslash followed by a reserved character X makes X literal text:
\* the Skip state lasts exactly one character (while in Skip the automaton has
\* consumed only the escaping backslash), only the escaping backslashes are
\* dropped from the result, and every escaped X lies in a Text token.
C11_EscapeLiteral ==
    /\ (pc = "inline" /\ istate.tag = "Skip") =>
           /\ last = iix
           /\ content[iix] = "\\"
    /\ (Done /\ OneWordInline /\ Unescaped.lit # {}) =>
           /\ Concat(buff) = Unescaped.out
           /\ \A p \in Unescaped.lit : KindAt(buff, p) = "Text"

\* The kind the specification gives a matched pair of runs with value v
PairKind(v) ==
    IF v[1] = BT THEN "CodeMark"
    ELSE IF Len(v) = 1 THEN "ItalicMark"
    ELSE IF Len(v) = 2 THEN "BoldMark"
    ELSE "ItalicBoldMark"

\* The values of the tokens of b
Values(b) == [i \in 1..Len(b) |-> b[i].value]

\* C12: when the tidy pass finds the current delimiter token in the stack, the
\* matched entry and the current token both take the kind of the run (length 1
\* ItalicMark, 2 BoldMark, 3 ItalicBoldMark, a backtick run CodeMark) and no
\* value changes.
C12_MatchedPairKinds ==
    [][(pc = "tidy" /\ NextRaw(ibuff, tpos) # 0 /\ Found) =>
          LET i == NextRaw(ibuff, tpos)
              m == PopRange(stack, ibuff, NextTok).pops[1]
              k == PairKind(ibuff[i].value)
          IN  /\ Len(ibuff[i].value) \in 1..3
              /\ ibuff[m].value = ibuff[i].value
              /\ ibuff'[i].kind = k
              /\ ibuff'[m].kind = k
              /\ Values(ibuff') = Values(ibuff)]_vars

\* C12 witness: a matched pair of three-character runs has been reclassified
C12_Witness ==
    /\ Done
    /\ \E i, j \in 1..Len(buff) :
           /\ i < j
           /\ buff[i] = Token(<<"_", "_", "_">>, "ItalicBoldMark")
           /\ buff[j] = buff[i]

\* A value that is a run of one delimiter character
IsRun(v) == v # <<>> /\ v[1] \in DelimChars /\ AllChars(v, v[1])

\* C13: no token of the result has kind Star, UnderLine or BackTick: after the
\* tidy pass every raw delimiter token is a mark or Text, those left on the
\* stack included.
C13_NoRawDelimiters ==
    /\ pc \in {"return", "done"} => \A i \in 1..Len(ibuff) : ibuff[i].kind \notin RawKinds
    /\ Done => \A i \in 1..Len(buff) : buff[i].kind \notin RawKinds

\* C13 witness: a result with a matched pair and a run that was left on the
\* stack and became Text
C13_Witness ==
    /\ Done
    /\ \E i \in 1..Len(buff) : buff[i].kind \in {"ItalicMark", "BoldMark", "CodeMark"}
    /\ \E i \in 1..Len(buff) :
           /\ buff[i].kind = "Text" /\ IsRun(buff[i].value)
           /\ Len(buff[i].value) < MinLongRun

InlineMarkKinds == {"ItalicMark", "BoldMark", "ItalicBoldMark", "CodeMark"}

\* C14: a delimiter run that has four or more characters after the
\* normalization never becomes a mark: it is never on the stack, it is not
\* found in the stack, the step of tidy that reads it makes it Text, and every
\* emphasis or code mark of the result has a value of 1, 2 or 3 characters.
C14_LongRunsAreText ==
    /\ [](\A j \in 1..Len(stack) : Len(ibuff[stack[j]].value) < MinLongRun)
    /\ [](Done => \A i \in 1..Len(buff) :
                     buff[i].kind \in InlineMarkKinds => Len(buff[i].value) \in 1..3)
    /\ [][(pc = "tidy" /\ NextRaw(ibuff, tpos) # 0 /\ Len(NextTok.value) >= MinLongRun) =>
             /\ ~Found
             /\ stack' = stack
             /\ ibuff'[NextRaw(ibuff, tpos)] = Token(NextTok.value, "Text")]_vars

\* C14 witness: a result with a matched pair and a run of four characters as
\* Text, which the normalization cut off a longer run
C14_Witness ==
    /\ Done
    /\ \E i \in 1..Len(buff) : buff[i].kind \in InlineMarkKinds
    /\ \E i \in 1..Len(buff) :
           /\ buff[i].kind = "Text" /\ IsRun(buff[i].value)
           /\ Len(buff[i].value) = MinLongRun

\* The maximal segments of equal characters of s, in order
RECURSIVE Segments(_, _)
Segments(s, acc) ==
    IF s = <<>> THEN acc
    ELSE IF acc # <<>> /\ acc[Len(acc)][1] = s[1]
    THEN Segments(Tail(s), [acc EXCEPT ![Len(acc)] = Append(@, s[1])])
    ELSE Segments(Tail(s), Append(acc, <<s[1]>>))

LineSegments == Segments(Unterminated, <<>>)

\* The positions in LineSegments of the delimiter runs
RunSegments == {j \in 1..Len(LineSegments) : LineSegments[j][1] \in DelimChars}

\* The line is inline content of letters and of runs of one delimiter
\* character, all of the same length of at most three
UniformRuns ==
    /\ OneWordInline
    /\ \E d \in DelimChars : Range(Unterminated) \subseteq {d, "a"}
    /\ RunSegments # {}
    /\ \A j, k \in RunSegments : Len(LineSegments[j]) = Len(LineSegments[k])
    /\ \A j \in RunSegments : Len(LineSegments[j]) <= 3

\* The token of the j-th segment when the runs pair left to right: the runs
\* 2k-1 and 2k are marks, an odd last run is Text
PairedToken(j) ==
    LET seg == LineSegments[j]
        n   == Cardinality({k \in RunSegments : k <= j})
        N   == Cardinality(RunSegments)
    IN  IF j \notin RunSegments \/ (n = N /\ N % 2 = 1)
        THEN Token(seg, "Text")
        ELSE Token(seg, PairKind(seg))

\* C15: on a line whose delimiter runs are N runs of the same character and
\* the same length L <= 3, the runs pair left to right: runs 2k-1 and 2k are
\* the two marks of the kind of L, and an odd last run is Text.
C15_PairLeftToRight ==
    (Done /\ UniformRuns) =>
        buff = [j \in 1..Len(LineSegments) |-> PairedToken(j)]

\* C15 witness: three runs of three characters, the third one left over
C15_Witness ==
    /\ Done /\ UniformRuns
    /\ Cardinality(RunSegments) = 3
    /\ \A j \in RunSegments : Len(LineSegments[j]) = 3
    /\ buff[Len(buff)].kind = "Text" /\ IsRun(buff[Len(buff)].value)

\* The attribute mapping that holds the non-empty ones of the given
\* <<key, value>> pairs; no mapping at all when none is stored
Details(pairs) ==
    LET keys == {p[1] : p \in {q \in pairs : q[2] # <<>>}}
    IN  IF keys = {} THEN NoDetails
        ELSE [some |-> TRUE,
              map  |-> [k \in keys |-> (CHOOSE p \in pairs : p[1] = k)[2]]]

\* The token t has the attribute k with value v
HasAttr(t, k, v) == t.details.some /\ k \in DOMAIN t.details.map /\ t.details.map[k] = v

\* The token t has no attribute k
NoAttr(t, k) == ~t.details.some \/ k \notin DOMAIN t.details.map

\* The automaton is in Location and reads the closing parenthesis
LocationCloses == AtArm("Location") /\ content[iix + 1] = ")"

\* The construct that closes: where it begins, its span, its name, its
\* parenthesized clause (trimmed) and the kind its offsets say
LocBegin == IF istate.has1 THEN istate.b1 ELSE istate.b2
LocSpan == Slice(content, LocBegin, iix + 1)
LocName == Slice(content, istate.b2 + 1, istate.b3)
LocClause == Trim(Slice(content, istate.b4 + 1, iix))
LocKind == IF istate.has1 THEN "Image" ELSE "Link"

\* The clause has a second field (text after its first space or tab), and
\* that field is a complete quoted string
HasSecondField(cl) == \E i \in 1..Len(cl) : cl[i] \in {" ", "\t"}
SecondFieldQuoted(cl) == HasSecondField(cl) /\ IsQuotedString(SplitN2(cl)[2])

\* C16 as stated: on ) in Location the automaton emits the pending text and
\* then one token with the whole span as value, of kind Image iff the offset
\* of ! is present and Link otherwise, named by the text between the brackets,
\* and returns to Normal.
C16_LocationCloses ==
    [][LocationCloses =>
          LET t == ibuff'[Len(ibuff')]
          IN  /\ istate' = INormal
              /\ ibuff' = Append(PushText(ibuff, Slice(content, last, LocBegin)), t)
              /\ t.value = LocSpan
              /\ t.kind = LocKind
              /\ LocName # <<>> => HasAttr(t, "name", LocName)]_vars

\* C16, amended: the token is an Image or Link with name, location and title
\* when the clause has one field or its second field is a quoted string; when
\* the second field is not a quoted string the token is Text without attributes.
C16_LocationClosesValid ==
    [][LocationCloses =>
          LET t  == ibuff'[Len(ibuff')]
              cl == LocClause
          IN  /\ istate' = INormal
              /\ last' = iix + 1
              /\ ibuff' = Append(PushText(ibuff, Slice(content, last, LocBegin)), t)
              /\ t.value = LocSpan
              /\ IF ~HasSecondField(cl)
                 THEN /\ t.kind = LocKind
                      /\ t.details = Details({<<"name", LocName>>, <<"location", cl>>})
                 ELSE IF SecondFieldQuoted(cl)
                 THEN /\ t.kind = LocKind
                      /\ IF LocName # <<>> THEN HasAttr(t, "name", LocName)
                                           ELSE NoAttr(t, "name")
                      /\ HasAttr(t, "location", SplitN2(cl)[1])
                      /\ ~NoAttr(t, "title")
                 ELSE t = Token(LocSpan, "Text")]_vars

\* C16 witness: an image with name, location and title after pending text
C16_Witness ==
    /\ Done
    /\ Len(buff) >= 2
    /\ buff[1].kind = "Text"
    /\ buff[2].kind = "Image"
    /\ HasAttr(buff[2], "name", <<"a">>)
    /\ HasAttr(buff[2], "location", <<"a">>)
    /\ ~NoAttr(buff[2], "title")

\* The 1-based position in the line of a character that occurs once in it
PosOf(c) == CHOOSE i \in 1..Len(line) : line[i] = c

\* The line holds one inline link or image and no other bracket or
\* parenthesis: [ ... ]( ... ), each of the four characters once
LinkShape ==
    /\ \A c \in {"[", "]", "(", ")"} : Count(line, c) = 1
    /\ PosOf("[") < PosOf("]")
    /\ PosOf("(") = PosOf("]") + 1
    /\ PosOf("(") < PosOf(")")
    /\ \A i \in 1..PosOf("[") : line[i] \in {"a", "!", "["}

\* Where the construct starts (at its ! when it is an image), its span and
\* its trimmed clause
SpanStart ==
    IF PosOf("[") > 1 /\ line[PosOf("[") - 1] = "!" THEN PosOf("[") - 1 ELSE PosOf("[")
LinkSpan == SubSeq(line, SpanStart, PosOf(")"))
ClauseText == Trim(SubSeq(line, PosOf("(") + 1, PosOf(")") - 1))

\* The clause has a second field, the text after its first run of spaces and
\* tabs, and that field is not a complete quoted string
BadSecondField ==
    /\ HasSecondField(ClauseText)
    /\ ~IsQuotedString(TrimStart(SplitN2(ClauseText)[2]))

\* No backslash of the line stands before a reserved character: the construct
\* is read to its closing parenthesis
NoEscapeInLine ==
    \A i \in 1..(Len(line) - 1) : ~(line[i] = "\\" /\ line[i + 1] \in ESCAPE_CHARS)

\* C17: when the clause of an inline link or image (read to its closing
\* parenthesis, no escape in between) has a second field that is not a
\* complete quoted string, the whole span is one Text token without
\* attributes and the result has no Image or Link token.
C17_BadTitleIsText ==
    (Done /\ LinkShape /\ NoEscapeInLine /\ BadSecondField) =>
        /\ \E i \in 1..Len(buff) : buff[i] = Token(LinkSpan, "Text")
        /\ \A i \in 1..Len(buff) : buff[i].kind \notin {"Image", "Link"}

\* C17 witness: an image whose title has no closing quote came out as Text
C17_Witness ==
    /\ Done /\ LinkShape /\ NoEscapeInLine /\ BadSecondField
    /\ line[SpanStart] = "!"
    /\ Count(ClauseText, "\"") = 1
    /\ \E i \in 1..Len(buff) : buff[i] = Token(LinkSpan, "Text")

\* The automaton is in RefLink and reads the closing bracket of the tag
RefLinkCloses == AtArm("RefLink") /\ content[iix + 1] = "]"

\* C18: on ] in RefLink the automaton emits the pending text and then a
\* RefLink token whose value is the span [name][tag], with name = the text of
\* the first bracket pair and ptr = the text of the second (empty ones
\* omitted, nothing else), and returns to Normal, for every name and tag.
C18_RefLinkCloses ==
    [][RefLinkCloses =>
          LET t == ibuff'[Len(ibuff')]
          IN  /\ istate' = INormal
              /\ ibuff' = Append(PushText(ibuff, Slice(content, last, istate.b1)), t)
              /\ t.value = Slice(content, istate.b1, iix + 1)
              /\ t.kind = "RefLink"
              /\ t.details = Details({<<"name", Slice(content, istate.b1 + 1, istate.b2)>>,
                                      <<"ptr", Slice(content, istate.b3 + 1, iix)>>})]_vars

\* The automaton is in RefLinkDef and reads one more character
RefLinkDefReads ==
    pc = "inline" /\ istate.tag = "RefLinkDef" /\ ~InlineEnded(content, R)

\* C19: once in RefLinkDef, reading one more character emits one RefLinkDef
\* token with ptr = the bracket text and ends the tokenizing of the line; in
\* the result nothing but a LineBreak follows a RefLinkDef token.
C19_RefLinkDefTerminal ==
    /\ [][RefLinkDefReads =>
             LET t == ibuff'[Len(ibuff')]
                 p == Slice(content, istate.b1 + 1, istate.b2)
             IN  /\ ibuff' = Append(ibuff, t)
                 /\ t.kind = "RefLinkDef"
                 /\ p # <<>> => HasAttr(t, "ptr", p)
                 /\ istate' = IFinished]_vars
    /\ [](Done => \A i, j \in 1..Len(buff) :
                     (buff[i].kind = "RefLinkDef" /\ i < j) => buff[j].kind = "LineBreak")

\* The automaton is in QuickLink and reads >
QuickLinkCloses == AtArm("QuickLink") /\ content[iix + 1] = ">"

\* The text between < and the > that is read, trimmed
QuickText == Trim(Slice(content, istate.b1 + 1, iix))

\* C20: on the first > after a < read in Normal, when the trimmed text between
\* them is a valid absolute URL or e-mail address the automaton emits the
\* pending text and a QuickLink token whose value is the span and whose name
\* and location are the trimmed text, with no title; otherwise it emits
\* nothing and returns to Normal with the < left as text.
C20_QuickLink ==
    [][QuickLinkCloses =>
          IF IsUrl(QuickText) \/ IsEmail(QuickText)
          THEN LET t == ibuff'[Len(ibuff')]
               IN  /\ ibuff' = Append(PushText(ibuff, Slice(content, last, istate.b1)), t)
                   /\ t.value = Slice(content, istate.b1, iix + 1)
                   /\ t.kind = "QuickLink"
                   /\ t.details = Details({<<"name", QuickText>>, <<"location", QuickText>>})
                   /\ istate' = INormal
          ELSE /\ ibuff' = ibuff
               /\ last' = last
               /\ istate' = INormal]_vars

\* The states in which an image, link, reference link or autolink is open
OpenStates ==
    {"ImgBegin", "ImgNameBegin", "LinkNameBegin", "NameEnd", "RefLink", "Location",
     "QuickLink"}

\* The text since the last flush up to the character being read, without
\* its trailing whitespace and then without the one <br> marker at its end, if
\* there is one
PendingTrimmed ==
    LET s == TrimEnd(Slice(content, last, iix))
    IN  IF EndsWith(s, BR) THEN SubSeq(s, 1, Len(s) - Len(BR)) ELSE s

\* C21: when the newline is read while an image, link, reference link or
\* autolink is open, the automaton emits the characters since the last flush,
\* trimmed of trailing whitespace and of a trailing <br>, as one Text token and
\* nothing else, and the pass ends.
C21_NewlineClosesOpenConstruct ==
    [][(AtArm("Newline") /\ istate.tag \in OpenStates) =>
          /\ PendingTrimmed # <<>>
          /\ ibuff' = Append(ibuff, Token(PendingTrimmed, "Text"))
          /\ pc' = "inline_end"]_vars

\* The text the inline phase ran on
InlineText == SliceFrom(line, state.begin)

\* The inline phase ran and split has returned
InlineDone == Done /\ state.tag = "Inline"

\* The inline text ends with two or more spaces before the newline, or ends
\* with <br> once its trailing whitespace is trimmed
EndsWithBreak ==
    LET c == InlineText
        n == Len(c)
    IN  \/ n >= 3 /\ c[n] = "\n" /\ c[n - 1] = " " /\ c[n - 2] = " "
        \/ LET t == TrimEnd(c)
           IN  Len(t) >= 4 /\ SubSeq(t, Len(t) - 3, Len(t)) = <<"<", "b", "r", ">">>

LineBreaks == {i \in 1..Len(buff) : buff[i].kind = "LineBreak"}

\* C22: when the inline phase ran, the result has a LineBreak token iff the
\* inline text ends with two or more spaces before the newline or, trimmed of
\* trailing whitespace, with <br>; there is then exactly one, its value is
\* <br> and it is the last token.
C22_LineBreak ==
    InlineDone =>
        /\ LineBreaks # {} <=> EndsWithBreak
        /\ LineBreaks # {} =>
               /\ LineBreaks = {Len(buff)}
               /\ buff[Len(buff)] = Token(<<"<", "b", "r", ">">>, "LineBreak")

\* C22 witness: a line that ends with <br> and spaces gave text and a LineBreak
C22_Witness ==
    /\ InlineDone /\ EndsWithBreak
    /\ Len(line) >= 2 /\ line[Len(line) - 1] = " "
    /\ Count(line, "<") = 1
    /\ Len(buff) >= 2
    /\ buff[Len(buff)].kind = "LineBreak"
    /\ buff[Len(buff) - 1].kind = "Text"

\* C23: in every result the details of a token are absent or a non-empty
\* mapping with no empty value: an empty name, location, title or tag is
\* never stored, an empty quoted title included.
C23_NoEmptyAttribute ==
    Done => \A i \in 1..Len(buff) :
                buff[i].details.some =>
                    /\ DOMAIN buff[i].details.map # {}
                    /\ \A k \in DOMAIN buff[i].details.map : buff[i].details.map[k] # <<>>

\* The attribute names a token of the given kind may hold
Schema(kind) ==
    IF kind \in {"Image", "Link", "QuickLink"} THEN {"name", "location", "title"}
    ELSE IF kind = "RefLink" THEN {"name", "ptr"}
    ELSE IF kind = "RefLinkDef" THEN {"ptr", "location", "title"}
    ELSE {}

\* C24: in every result a token has details only if its kind is Image, Link,
\* QuickLink, RefLink or RefLinkDef, and its attribute names are within the
\* schema of its kind; a construct degraded to Text has no details.
C24_DetailsFollowKind ==
    Done => \A i \in 1..Len(buff) :
                buff[i].details.some =>
                    /\ buff[i].kind \in {"Image", "Link", "QuickLink", "RefLink", "RefLinkDef"}
                    /\ DOMAIN buff[i].details.map \subseteq Schema(buff[i].kind)

\* C24 witness: a link with all three attributes
C24_Witness ==
    /\ Done
    /\ \E i \in 1..Len(buff) :
           /\ buff[i].kind = "Link"
           /\ DOMAIN buff[i].details.map = {"name", "location", "title"}
    /\ HasNewline

\* The value v occurs in s at the 1-based position o
OccursAt(s, v, o) == o + Len(v) - 1 <= Len(s) /\ SubSeq(s, o, o + Len(v) - 1) = v

\* The values of the tokens of b occur in s from position from on, in order
\* and without overlap (each one at its first possible place)
RECURSIVE Embeds(_, _, _)
Embeds(b, s, from) ==
    IF b = <<>> THEN TRUE
    ELSE LET v == Head(b).value
             P == {o \in from..(Len(s) + 1) : OccursAt(s, v, o)}
         IN  /\ P # {}
             /\ Embeds(Tail(b), s, (CHOOSE o \in P : \A q \in P : o <= q) + Len(v))

\* The tokens of the result other than the LineBreak
Spans == SelectSeq(buff, LAMBDA t : t.kind # "LineBreak")

\* C25: the tokens of a result are spans of the line that follow each other
\* without overlap: apart from the LineBreak, no character of the line is in
\* the value of more than one token.
C25_NonOverlapping ==
    Done => Embeds(Spans, line, 1)

\* s without the whitespace and the <br> markers at its end
RECURSIVE StripTail(_)
StripTail(s) ==
    IF s = <<>> THEN s
    ELSE IF IsWhitespace(s[Len(s)]) THEN StripTail(SubSeq(s, 1, Len(s) - 1))
    ELSE IF EndsWith(s, <<"<", "b", "r", ">">>) THEN StripTail(SubSeq(s, 1, Len(s) - 4))
    ELSE s

\* The positions in s, from i on, of the backslashes that escape a reserved
\* character (an escaped backslash escapes nothing)
RECURSIVE EscapingAt(_, _)
EscapingAt(s, i) ==
    IF i >= Len(s) THEN {}
    ELSE IF s[i] = "\\" /\ s[i + 1] \in ESCAPE_CHARS THEN {i} \cup EscapingAt(s, i + 2)
    ELSE EscapingAt(s, i + 1)

\* The positions of the line whose character the lexer may drop: the newline,
\* the trailing whitespace and <br> markers, the escaping backslashes, and the
\* whitespace character that ends a block mark
Droppable ==
    {Len(line)}
    \cup {p \in 1..Len(line) : p > Len(StripTail(Unterminated))}
    \cup EscapingAt(line, 1)
    \cup (IF BlockMarks # {} THEN {WordEnd + 1} ELSE {})

\* out from its j-th character on is the line from its i-th character on with
\* only droppable characters removed
RECURSIVE Reduces(_, _, _)
Reduces(out, i, j) ==
    IF i > Len(line) THEN j > Len(out)
    ELSE \/ j <= Len(out) /\ line[i] = out[j] /\ Reduces(out, i + 1, j + 1)
         \/ i \in Droppable /\ Reduces(out, i + 1, j)

\* C26: for a line that ends with a newline, the values of the tokens other
\* than the LineBreak, concatenated in order, are the line with only these
\* characters removed: the whitespace character that ends a block mark, the
\* escaping backslashes, trailing whitespace and <br> markers, and the newline.
C26_RoundTrip ==
    (Done /\ HasNewline) => Reduces(Concat(Spans), 1, 1)

\* The automaton reads a character in a state whose arm may build a link token
LinkArmReads ==
    \E arm \in {"RefLink", "RefLinkDef", "Location", "QuickLink"} : AtArm(arm)

\* C27: the link-attribute accessor panics on a token whose kind is not Image,
\* Link, QuickLink, RefLink or RefLinkDef and on no token of these kinds, and
\* the lexer never calls it on a token it has degraded to Text: no step that
\* builds a link token panics.
C27_AccessorPanics ==
    /\ [](\A k \in TokenKind :
             AsGenericLinkPanics(Token(<<>>, k))
                 <=> k \notin {"Image", "Link", "QuickLink", "RefLink", "RefLinkDef"})
    /\ [][LinkArmReads => ~panicked' /\ pc' # "aborted"]_vars

\* C27 witness: a reference link was degraded to Text and split returned
C27_Witness ==
    /\ Done /\ ~panicked
    /\ \E i \in 1..Len(buff) :
           /\ buff[i].kind = "Text"
           /\ Len(buff[i].value) >= 4
           /\ buff[i].value[1] = "["
           /\ buff[i].value[Len(buff[i].value)] = "]"
           /\ " " \in Range(buff[i].value)
           /\ Count(buff[i].value, "[") = 2

\* The line is a title mark of 1 to 4 # followed by whitespace only, the
\* newline last
TitleOnly ==
    /\ HasNewline /\ LeadLen = 0
    /\ Len(FirstWord) \in 1..4 /\ AllChars(FirstWord, "#")
    /\ \A i \in (WordEnd + 1)..Len(line) : IsWhitespace(line[i])

\* C28: for a line that is a title mark followed by whitespace only, whatever
\* the number of spaces, the result is the TitleMark token alone.
C28_TitleOnly ==
    (Done /\ TitleOnly) => buff = <<Token(FirstWord, "TitleMark")>>

\* C29 as stated: no token of a result has an empty value.
C29_NoEmptyValue ==
    Done => \A i \in 1..Len(buff) : buff[i].value # <<>>

\* C29, amended: the only token of a result with an empty value is the
\* BlankLine token of the line that is a newline alone.
C29_NoEmptyValueButBlankLine ==
    Done => \A i \in 1..Len(buff) :
                buff[i].value = <<>> => (buff[i].kind = "BlankLine" /\ line = <<"\n">>)

\* C29 witness: a line without leading whitespace, for which no WhiteSpace
\* token was pushed, went through the inline phase
C29_Witness ==
    /\ InlineDone /\ LeadLen = 0
    /\ Len(buff) >= 2
    /\ \A i \in 1..Len(buff) : buff[i].value # <<>> /\ buff[i].kind # "WhiteSpace"

\* Run-length normalization as the specification states it, token by token:
\* pre is the tracked length.  A run longer than a nonzero pre is split into a
\* prefix of pre characters and the remainder, which is tracked next; a run
\* equal to pre clears the tracking; any other run replaces it.
RECURSIVE Normalized(_, _, _)
Normalized(b, kind, pre) ==
    IF b = <<>> THEN <<>>
    ELSE LET t   == Head(b)
             len == Len(t.value)
         IN  IF t.kind # kind THEN <<t>> \o Normalized(Tail(b), kind, pre)
             ELSE IF pre > 0 /\ len > pre
             THEN <<[t EXCEPT !.value = SubSeq(t.value, 1, pre)],
                    Token(SubSeq(t.value, pre + 1, len), kind)>>
                  \o Normalized(Tail(b), kind, len - pre)
             ELSE IF pre > 0 /\ len = pre
             THEN <<t>> \o Normalized(Tail(b), kind, 0)
             ELSE <<t>> \o Normalized(Tail(b), kind, len)

\* C30: the normalization runs on the Star tokens and then on the UnderLine
\* tokens, in order: a run longer than the nonzero tracked length is split
\* into a prefix of that length and an adjacent remainder of the same kind, an
\* equal run clears the tracking, a shorter run replaces it; BackTick tokens
\* and all other tokens stay as they are.
C30_Normalization ==
    /\ [][pc = "tidy_star" =>
             /\ ibuff' = Normalized(ibuff, "Star", 0)
             /\ pc' = "tidy_underline"]_vars
    /\ [][pc = "tidy_underline" =>
             /\ ibuff' = Normalized(ibuff, "UnderLine", 0)
             /\ pc' = "tidy"]_vars

\* C30 witness: after the normalization of the Star tokens two Star tokens of
\* two characters are adjacent, the halves of a run of four
C30_Witness ==
    /\ pc = "tidy_underline"
    /\ \E i \in 1..(Len(ibuff) - 1) :
           /\ ibuff[i] = Token(<<"*", "*">>, "Star")
           /\ ibuff[i + 1] = Token(<<"*", "*">>, "Star")

\* The emphasis and code marks of b, in order
MarkTokens(b) == SelectSeq(b, LAMBDA t : t.kind \in InlineMarkKinds)

\* The marks ms cancel as brackets do: a mark equal in kind and value to the
\* innermost open mark closes it, any other mark opens, and none stays open
RECURSIVE Cancels(_, _)
Cancels(ms, open) ==
    IF ms = <<>> THEN open = <<>>
    ELSE IF open # <<>> /\ open[Len(open)].kind = ms[1].kind
                        /\ open[Len(open)].value = ms[1].value
    THEN Cancels(Tail(ms), SubSeq(open, 1, Len(open) - 1))
    ELSE Cancels(Tail(ms), Append(open, ms[1]))

\* C31: the marks of every result form properly nested pairs of tokens of the
\* same kind and the same value, never crossing; and when a delimiter is
\* matched, every delimiter pending between the matched opener and the closer
\* becomes Text and leaves the stack with the opener.
C31_NestedPairs ==
    /\ [](Done => Cancels(MarkTokens(buff), <<>>))
    /\ [](pc = "return" => Cancels(MarkTokens(ibuff), <<>>))
    /\ [][(pc = "tidy" /\ NextRaw(ibuff, tpos) # 0 /\ Found) =>
             LET i == NextRaw(ibuff, tpos)
                 m == CHOOSE j \in 1..Len(stack) :
                          /\ ibuff[stack[j]].kind = ibuff[i].kind
                          /\ ibuff[stack[j]].value = ibuff[i].value
             IN  /\ stack' = SubSeq(stack, 1, m - 1)
                 /\ \A j \in (m + 1)..Len(stack) :
                        /\ stack[m] < stack[j] /\ stack[j] < i
                        /\ ibuff'[stack[j]] = Token(ibuff[stack[j]].value, "Text")]_vars

\* C31 witness: a pair of underscores nested in a pair of stars
C31_Witness ==
    /\ Done
    /\ Len(buff) = 5
    /\ buff[1] = Token(<<"*">>, "ItalicMark") /\ buff[5] = buff[1]
    /\ buff[2] = Token(<<"_">>, "ItalicMark") /\ buff[4] = buff[2]

\* The line is [name]() or ![name]() and its newline, the name being letters
\* and opening brackets followed by closing brackets only
NameShape ==
    /\ HasNewline
    /\ \E pre \in {<<>>, <<"!">>}, u \in Seqs({"a", "["}, MaxName),
          v \in Seqs({"]"}, MaxName) :
           Unterminated = pre \o <<"[">> \o u \o v \o <<"]", "(", ")">>

IsImageLine == line[1] = "!"

\* The 1-based position of the last opening bracket of the line, and of the first
LastOpen == CHOOSE i \in 1..Len(line) :
                line[i] = "[" /\ \A j \in (i + 1)..Len(line) : line[j] # "["
FirstOpen == CHOOSE i \in 1..Len(line) :
                 line[i] = "[" /\ \A j \in 1..(i - 1) : line[j] # "["

\* The text from the bracket at position p to the last closing bracket before (
NameFrom(p) == SubSeq(line, p + 1, Len(Unterminated) - 3)

\* C32 as stated: in a link name and in an image name alike a nested [
\* restarts the name, so the name of the resulting link or image starts after
\* the innermost [, and it extends to the last ] before (.
C32_InnermostBracket ==
    /\ [][((AtArm("LinkNameBegin") \/ AtArm("ImgNameBegin")) /\ content[iix + 1] = "[") =>
             /\ istate'.tag = istate.tag
             /\ (IF istate.tag = "LinkNameBegin" THEN istate'.b1 ELSE istate'.b2) = iix]_vars
    /\ []((Done /\ NameShape) =>
             \E i \in 1..Len(buff) :
                 /\ buff[i].kind = IF IsImageLine THEN "Image" ELSE "Link"
                 /\ buff[i].details = Details({<<"name", NameFrom(LastOpen)>>}))

\* C32, amended: in a link name a nested [ restarts the name and the text
\* before it is plain text; in an image name a [ is a character of the name,
\* which starts after the first [; a ] read in NameEnd moves the closing
\* bracket forward, so the name extends to the last ] before (.
C32_InnermostBracketOfLink ==
    /\ [][(AtArm("LinkNameBegin") /\ content[iix + 1] = "[") =>
             istate' = ILinkNameBegin(iix)]_vars
    /\ [][(AtArm("ImgNameBegin") /\ content[iix + 1] = "[") =>
             istate' = istate]_vars
    /\ [][(AtArm("NameEnd") /\ content[iix + 1] = "]") =>
             istate' = INameEnd(istate.has1, istate.b1, istate.b2, iix)]_vars
    /\ []((Done /\ NameShape) =>
             IF IsImageLine
             THEN buff = <<[Token(Unterminated, "Image")
                               EXCEPT !.details = Details({<<"name", NameFrom(FirstOpen)>>})]>>
             ELSE buff = PushText(<<>>, SubSeq(line, 1, LastOpen - 1))
                         \o <<[Token(SubSeq(Unterminated, LastOpen, Len(Unterminated)), "Link")
                                 EXCEPT !.details = Details({<<"name", NameFrom(LastOpen)>>})]>>)

\* C32 witness: an image whose name holds a nested bracket pair
C32_Witness ==
    /\ Done /\ NameShape
    /\ Len(buff) = 1 /\ buff[1].kind = "Image"
    /\ HasAttr(buff[1], "name", <<"[", "a", "]">>)

\* The first word came out as a block mark that is followed by inline text
TextMarkKinds == {"TitleMark", "OrderedMark", "QuoteMark", "UnorderedMark"}
HasTextMark == Len(buff) >= MarkPos /\ buff[MarkPos].kind \in TextMarkKinds

\* The line after the whitespace character that ends the first word, and the
\* whitespace it starts with when a text follows that whitespace
AfterWord == SliceFrom(line, WordEnd + 1)
FurtherWhitespace ==
    IF \A i \in 1..Len(AfterWord) : IsWhitespace(AfterWord[i]) THEN <<>>
    ELSE SubSeq(AfterWord, 1,
                (CHOOSE i \in 1..Len(AfterWord) :
                     /\ ~IsWhitespace(AfterWord[i])
                     /\ \A j \in 1..(i - 1) : IsWhitespace(AfterWord[j])) - 1)

StartsWith(v, w) == Len(v) >= Len(w) /\ SubSeq(v, 1, Len(w)) = w

\* The positions of the inline tokens of the result that are Text
InlineTexts == {i \in (MarkPos + 1)..Len(buff) : buff[i].kind = "Text"}

\* C33: after a TitleMark, OrderedMark, QuoteMark or UnorderedMark the inline
\* phase starts one character after the whitespace character that ends the
\* mark word, so that character is dropped; whitespace that follows it before
\* the text is kept: the first inline token starts with it, and so does the
\* first Text token.
C33_InlineStartsAfterMark ==
    /\ HasTextMark =>
           /\ state = StInline(WordEnd + 1)
           /\ pc # "split" => content = AfterWord
    /\ (Done /\ HasNewline /\ HasTextMark /\ FurtherWhitespace # <<>>) =>
           /\ Len(buff) > MarkPos
           /\ StartsWith(buff[MarkPos + 1].value, FurtherWhitespace)
           /\ \A i \in InlineTexts :
                  (\A j \in InlineTexts : i <= j) =>
                      StartsWith(buff[i].value, FurtherWhitespace)

\* C33 witness: an ordered mark, two spaces and a letter
C33_Witness ==
    /\ Done
    /\ buff = <<Token(<<"1", ".">>, "OrderedMark"), Token(<<" ", "a">>, "Text")>>

\* The kind the line's construct asks for
ShapeKind == IF line[SpanStart] = "!" THEN "Image" ELSE "Link"

\* The clause split at its first run of spaces and tabs
FirstField == SplitN2(ClauseText)[1]
SecondField == TrimStart(SplitN2(ClauseText)[2])

\* C34: the clause of an inline link or image is split at its first run of
\* spaces and tabs: a clause without a space or tab is the location and there
\* is no title, and a location followed by one or more spaces or tabs and a
\* quoted title gives a token of the requested kind with that location and a title.
C34_SplitAtFirstRun ==
    (Done /\ HasNewline /\ LinkShape) =>
        IF ~HasSecondField(ClauseText)
        THEN \E i \in 1..Len(buff) :
                 /\ buff[i].kind = ShapeKind
                 /\ buff[i].value = LinkSpan
                 /\ ClauseText # <<>> => HasAttr(buff[i], "location", ClauseText)
                 /\ NoAttr(buff[i], "title")
        ELSE IsQuotedString(SecondField) =>
                 \E i \in 1..Len(buff) :
                     /\ buff[i].kind = ShapeKind
                     /\ buff[i].value = LinkSpan
                     /\ FirstField # <<>> => HasAttr(buff[i], "location", FirstField)
                     /\ ~NoAttr(buff[i], "title")

\* The second field of the clause as the extractor takes it, which is accepted
\* as a quoted title
AcceptedTitle ==
    /\ HasSecondField(ClauseText)
    /\ IsQuotedString(SplitN2(ClauseText)[2])

\* A quoted string without its opening and its closing quote character
Unquoted(s) == SubSeq(s, 2, Len(s) - 1)

\* C35: the title stored for an accepted quoted title is the quoted string
\* without its one opening and its one closing quote character: every
\* character between the two is kept, quote characters of the other kind and
\* escaped quotes next to the delimiters included.
C35_TitleUnquoted ==
    (Done /\ HasNewline /\ LinkShape /\ AcceptedTitle /\ EscapingAt(line, 1) = {}) =>
        \E i \in 1..Len(buff) :
            /\ buff[i].kind = ShapeKind
            /\ buff[i].value = LinkSpan
            /\ HasAttr(buff[i], "title", Unquoted(SplitN2(ClauseText)[2]))

\* new is old with some raw delimiter tokens replaced by two adjacent tokens
\* of the same kind whose values are not empty and concatenate to the original
RECURSIVE Refines(_, _)
Refines(old, new) ==
    IF old = <<>> THEN new = <<>>
    ELSE \/ /\ new # <<>>
            /\ new[1] = old[1]
            /\ Refines(Tail(old), Tail(new))
         \/ /\ Len(new) >= 2
            /\ old[1].kind \in RawKinds
            /\ new[1].kind = old[1].kind /\ new[2].kind = old[1].kind
            /\ new[1].value # <<>> /\ new[2].value # <<>>
            /\ new[1].value \o new[2].value = old[1].value
            /\ Refines(Tail(old), Tail(Tail(new)))

\* The tokens of b that are no raw delimiter
Settled(b) == SelectSeq(b, LAMBDA t : t.kind \notin RawKinds)

\* C36: the tidy pass keeps the text of the token list.  The normalization
\* only replaces a raw delimiter token by two adjacent tokens whose values
\* concatenate to it; the steps of the stack matching change kinds of raw
\* delimiter tokens only, never a value, the details or the number of tokens;
\* every token that is no Star, UnderLine or BackTick stays as it is and where it is.
C36_TidyKeepsText ==
    /\ [][(pc = "tidy_star" \/ pc = "tidy_underline") =>
             /\ Refines(ibuff, ibuff')
             /\ Concat(ibuff') = Concat(ibuff)
             /\ Settled(ibuff') = Settled(ibuff)]_vars
    /\ [][pc = "tidy" =>
             /\ Len(ibuff') = Len(ibuff)
             /\ \A i \in 1..Len(ibuff) :
                    /\ ibuff'[i].value = ibuff[i].value
                    /\ ibuff'[i].details = ibuff[i].details
                    /\ ibuff[i].kind \notin RawKinds => ibuff'[i] = ibuff[i]]_vars

\* C36 witness: the result for a star, a letter and two stars: the run of two
\* was split and the kinds were set, the text is the same
C36_Witness ==
    /\ pc = "return"
    /\ ibuff = <<Token(<<"*">>, "ItalicMark"), Token(<<"a">>, "Text"),
                 Token(<<"*">>, "ItalicMark"), Token(<<"*">>, "Text")>>
    /\ Concat(ibuff) \o <<"\n">> = content

\* The automaton reads a backslash that is followed by a reserved character
EscapeRead == AtArm("Backslash") /\ Peek(content, iix, "x") \in ESCAPE_CHARS

\* The 0-based position of the first backslash of content
FirstBackslash ==
    CHOOSE p \in 0..(Len(content) - 1) :
        content[p + 1] = "\\" /\ \A q \in 1..p : content[q] # "\\"

\* The first backslash of content escapes a reserved character and is read
\* while an image, link, reference link or autolink is open
EscapeInConstruct ==
    /\ \E p \in 1..Len(content) : content[p] = "\\"
    /\ Peek(content, FirstBackslash, "x") \in ESCAPE_CHARS
    /\ InlineRun(SubSeq(content, 1, FirstBackslash), Reg0).state.tag \in OpenStates

\* The value v holds a backslash followed by a reserved character
HoldsEscape(v) == \E i \in 1..(Len(v) - 1) : v[i] = "\\" /\ v[i + 1] \in ESCAPE_CHARS

\* C37: a backslash followed by a reserved character is handled before the
\* state is looked at.  Read while an image, link, reference link or autolink
\* is open, it flushes the pending text, the opening characters of the
\* construct included, as Text and abandons the construct; the automaton is in
\* Normal once the escaped character is read; and no Image, Link, RefLink or
\* QuickLink token has a value that holds such an escape.
C37_EscapeAbandonsConstruct ==
    /\ [][(EscapeRead /\ istate.tag \in OpenStates) =>
             /\ Slice(content, last, iix) # <<>>
             /\ ibuff' = Append(ibuff, Token(Slice(content, last, iix), "Text"))
             /\ istate' = ISkip
             /\ last' = iix + 1]_vars
    /\ []((pc = "inline" /\ EscapeInConstruct /\ iix = FirstBackslash + 2) =>
             istate = INormal)
    /\ [](\A i \in 1..Len(ibuff) :
              ibuff[i].kind \in {"Image", "Link", "RefLink", "QuickLink"} =>
                  ~HoldsEscape(ibuff[i].value))

\* The automaton reads a character in the arm of its state (the character is
\* neither the newline nor a backslash)
ReadsInState == pc = "inline" /\ ~InlineEnded(content, R) /\ ArmOf(content, R) = istate.tag

\* The step pushes a raw delimiter token
PushesDelimiter ==
    /\ Len(ibuff') > Len(ibuff)
    /\ ibuff'[Len(ibuff')].kind \in RawKinds

\* A delimiter run begins at the character read in this step
DelimiterBegins ==
    /\ pc = "inline" /\ istate.tag # "Continuous"
    /\ PushesDelimiter \/ istate'.tag = "Continuous"

\* An image, link or autolink begins, or begins anew, at the character read
ConstructBegins ==
    /\ pc = "inline"
    /\ istate'.tag \in {"ImgBegin", "LinkNameBegin", "QuickLink"}
    /\ istate' # istate

\* split_inline's registers when the character at 0-based position p is about
\* to be read
RECURSIVE RunTo(_, _, _)
RunTo(cont, a, p) ==
    IF a.ix >= p \/ InlineEnded(cont, a) THEN a ELSE RunTo(cont, InlineStep(cont, a), p)

RawTokens(b) == SelectSeq(b, LAMBDA t : t.kind \in RawKinds)

\* The 0-based positions of the opening brackets of content that start a name
\* and have no closing bracket after them
UnclosedBrackets ==
    {p \in 0..(Len(content) - 1) :
        /\ content[p + 1] = "["
        /\ RunTo(content, Reg0, p).state.tag \in {"Normal", "ImgBegin", "LinkNameBegin"}
        /\ \A q \in (p + 2)..Len(content) : content[q] # "]"}

\* C38 as stated: a delimiter run begins only at a character read in Normal,
\* an image, link or autolink only at a character read in Normal or at [ or !
\* read in ImgBegin; every character is read once; and after an unclosed [
\* no delimiter token is produced before the newline.
C38_BeginsInNormal ==
    /\ [][DelimiterBegins => (ReadsInState /\ istate.tag = "Normal")]_vars
    /\ [][ConstructBegins =>
             /\ ReadsInState
             /\ \/ istate.tag = "Normal"
                \/ istate.tag = "ImgBegin" /\ content[iix + 1] \in {"[", "!"}]_vars
    /\ [][(pc = "inline" /\ ~InlineEnded(content, R)) => iix' = iix + 1]_vars
    /\ []((pc = "tidy_star" /\ HasNewline) =>
             \A p \in UnclosedBrackets :
                 RawTokens(ibuff) = RawTokens(RunTo(content, Reg0, p).buff))

\* C38, amended: a [ read in LinkNameBegin begins the link anew, and the
\* unclosed [ keeps delimiters from being produced only while no backslash
\* escape follows it, since the escape takes the automaton back to Normal.
C38_BeginsInNormalOrRestarts ==
    /\ [][DelimiterBegins => (ReadsInState /\ istate.tag = "Normal")]_vars
    /\ [][ConstructBegins =>
             /\ ReadsInState
             /\ \/ istate.tag = "Normal"
                \/ istate.tag = "ImgBegin" /\ content[iix + 1] = "!"
                \/ istate.tag = "LinkNameBegin" /\ content[iix + 1] = "["]_vars
    /\ [][(pc = "inline" /\ ~InlineEnded(content, R)) => iix' = iix + 1]_vars
    /\ []((pc = "tidy_star" /\ HasNewline) =>
             \A p \in UnclosedBrackets :
                 EscapingAt(SliceFrom(content, p), 1) = {} =>
                     RawTokens(ibuff) = RawTokens(RunTo(content, Reg0, p).buff))

\* C38 witness: the star read in NameEnd is plain text, so the second star
\* has no partner
C38_Witness ==
    /\ Done
    /\ buff = <<Token(<<"[", "a", "]", "*", "a">>, "Text"), Token(<<"*">>, "Text")>>

----------------------------------------------------------------------------
(* Line::parse *)

LineMarkKinds == {"TitleMark", "DisorderMark", "DividingMark", "QuoteMark"}

\* The tokens without their line numbers
Bare(toks) == [i \in 1..Len(toks) |-> [value |-> toks[i].value, kind |-> toks[i].kind]]

\* No or one mark token, then no or one token of another kind
MarkThenBody(toks) ==
    /\ Len(toks) <= 2
    /\ Len(toks) = 2 => toks[1].kind \in LineMarkKinds /\ toks[2].kind \notin LineMarkKinds

\* The kind of the line is the one its first token calls for
KindFromFirst ==
    /\ line_kind \in {"Unknow", "Blank", "Title", "Plain"}
    /\ line_kind = "Blank" <=> (tokens # <<>> /\ tokens[1].kind = "BlankLine")
    /\ line_kind = "Title" <=> (tokens # <<>> /\ tokens[1].kind = "TitleMark")
    /\ line_kind = "Plain" <=> (tokens # <<>> /\ tokens[1].kind = "Plain")
    /\ line_kind = "Unknow" <=>
          (tokens = <<>> \/ tokens[1].kind \in {"DisorderMark", "QuoteMark", "DividingMark"})

\* C39: Line::parse gives the line the kind its first token calls for (Blank
\* for BlankLine, Title for TitleMark, Plain for Plain, Unknow for a list,
\* quote or dividing mark and for no token); once the state machine is
\* Finished its tokens stay as they are; and the tokens of a line are no or
\* one mark token followed by no or one other token.
C39_KindFromFirstToken ==
    /\ [](ppc = "done" => KindFromFirst)
    /\ [][sm_state = "Finished" => Bare(tokens') = Bare(tokens)]_vars
    /\ [](ppc # "idle" => MarkThenBody(tokens))

\* A title line is parsed to its mark and its title, numbered as the line is
C39_Witness ==
    /\ ppc = "done"
    /\ text = <<"#", " ", "a", "\n">>
    /\ Bare(tokens) = <<[value |-> <<"#">>, kind |-> "TitleMark"],
                        [value |-> <<"a">>, kind |-> "Title"]>>
    /\ \A i \in 1..2 : tokens[i].line_num = line_num
    /\ line_kind = "Title"

====
